---- MODULE Spec2Model ----
(***************************************************************************)
(* Model of the MT5 gateway (src/python/mt5_connector.py): the MT5Connector *)
(* session guard, the per-symbol price stream workers, the subscription     *)
(* bookkeeping and the socket/REST handlers that drive them.                *)
(*                                                                          *)
(* Threads of the program are the model's processes:                        *)
(*   - one admin thread serving /connect and /disconnect,                   *)
(*   - one REST thread serving the query and trade endpoints,               *)
(*   - one socket handler thread per client identity,                       *)
(*   - the price_worker threads created by start_price_stream.              *)
(* A step is one access to shared state (a dictionary operation, a flag     *)
(* read or write, a lock operation, an emit); statements touching only      *)
(* thread-local state are folded into the neighbouring step. The steps of   *)
(* a thread that holds mt5_lock and touch only state that is written under  *)
(* the lock alone are folded likewise.                                      *)
(***************************************************************************)
EXTENDS Integers, Sequences, FiniteSets, TLC

\* ------------------------------------------------------------------ bounds
\* Number of price_worker threads created in the runs that are explored (the
\* program itself creates a thread whenever start_price_stream finds no
\* worker registered).
MaxWorkers == 2

\* Largest number of symbols in the list of one request-data or stop-data
\* event.
MaxRequest == 2

\* ------------------------------------------------------- program constants
\* price_worker: max_errors
max_errors == 5

\* close_trade: the default of max_retries.
max_retries == 3

\* place_trade / close_trade: "deviation" of the first request, of the second
\* request of place_trade, and its growth per attempt of close_trade.
FirstDeviation == 20
RetryDeviation == 50
DeviationStep == 10

\* Codes: the requote error code of mt5.last_error(), mt5.TRADE_RETCODE_DONE,
\* and the retcodes "invalid request" and "market closed".
RequoteCode == 10013
TRADE_RETCODE_DONE == 10009
InvalidRequest == 10021
MarketClosed == 10018

\* Units per point of the price scale.
PointUnits == 4

\* Largest requested volume, largest info.filling_mode, and the non-zero
\* info.stops_level explored.
MaxVolume == 6
MaxFillingMode == 7
MaxStopsLevel == 2

\* ------------------------------------------------------------------- sets
Symbols == {"XAUUSD"}
Clients == {"c1", "c2"}

\* Ticks the venue may return for symbol_info_tick (bid, ask).
Ticks == {[bid |-> 1, ask |-> 2], [bid |-> 2, ask |-> 2]}

\* Operations of the REST thread that need the session and leave the state of
\* the connector as it is (get_price has its own thread below).
RestOps == {"get_symbols", "get_symbol_info",
            "place_trade", "close_trade", "get_positions"}

\* Thread identities, as used for the owner of mt5_lock.
NoThread == <<"none", 0>>
AdminThread == <<"admin", 0>>
RestThread == <<"rest", 0>>
WorkerThread(w) == <<"worker", w>>
TradeThread == <<"trade", 0>>
PriceThread == <<"price", 0>>

\* last_price = None
None == <<>>

VARIABLES
    connected,             \* MT5Connector.connected
    shutdown_event,        \* MT5Connector.shutdown_event (is_set)
    mt5_lock,              \* owner of MT5Connector.mt5_lock, or NoThread
    session,               \* the MT5 terminal link: "closed" or "open"
    active_subscriptions,  \* dict symbol -> list of client ids
    price_threads,         \* dict symbol -> worker thread
    rooms,                 \* socket rooms symbol_<symbol>: set of client ids
    wpc,                   \* price_worker: position of each worker thread, in
                           \* the order in which the threads were created
    wsym,                  \* price_worker: the symbol of its closure
    last_price,            \* price_worker: last_price
    error_count,           \* price_worker: error_count
    consec,                \* history: failed fetches since the last successful one
    lastFetch,             \* history: outcome of the worker's latest fetch
    lastPub,               \* history: signature of the worker's latest push
    price_data,            \* price_worker: price_data, between get_price and emit
    hpc,                   \* socket handler thread of each client: position
    hsym,                  \* socket handler thread: the symbol being handled
    hrest,                 \* socket handler thread: the symbols of its list still
                           \* to handle
    hwas,                  \* history: the client was a subscriber when its call of
                           \* start_price_stream began
    apc,                   \* admin thread: position
    discStreak,            \* history: disconnect calls that returned success in a
                           \* row, no connect in between (2: two or more)
    dquiet,                \* history: no request-data handler was under way when
                           \* the latest disconnect call ran line 66
    arest,                 \* disconnect: symbols of its snapshot still to stop
    asym,                  \* disconnect: the symbol being stopped
    rpc,                   \* REST thread: position
    tpc,                   \* place_trade / close_trade: position of the call
    tcall,                 \* place_trade / close_trade: arguments and venue data read
    tloc,                  \* place_trade / close_trade: request, filling_type, attempt
    tsent,                 \* history: the requests given to mt5.order_send in this call
    tresult,               \* the (success, result) pair the call returned
    symbol_data,           \* MT5Connector.symbol_data: dict symbol -> high, low
    qpc,                   \* thread of GET /price/<symbol>: position in get_price
    qsym,                  \* get_price called directly: the symbol
    qres                   \* get_price called directly: the data it returned

vars == <<connected, shutdown_event, mt5_lock, session, active_subscriptions,
          price_threads, rooms, wpc, wsym, last_price, error_count, consec,
          lastFetch, lastPub, price_data, hpc, hsym, hrest, hwas, apc, discStreak, dquiet,
          arest, asym,
          rpc,
          tpc, tcall, tloc, tsent, tresult, symbol_data, qpc, qsym, qres>>

sessionVars == <<connected, shutdown_event, session>>
workerLocals == <<last_price, error_count, consec, lastFetch, lastPub, price_data>>
workerVars == <<wpc, wsym, workerLocals>>
handlerVars == <<hpc, hsym, hrest, hwas>>
adminLocals == <<arest, asym>>
adminVars == <<apc, discStreak, dquiet, adminLocals>>
tradeVars == <<tpc, tcall, tloc, tsent, tresult>>
quoteVars == <<qpc, qsym, qres>>
priceVars == <<symbol_data, quoteVars>>
restVars == <<rpc, tradeVars, priceVars>>

\* The price_worker threads created so far, numbered in the order of their
\* creation (line 237); a thread that has ended keeps its number.
Workers == DOMAIN wpc

\* ------------------------------------------------------------ dictionaries
EmptyDict == [k \in {} |-> 0]
Has(d, k) == k \in DOMAIN d
Put(d, k, v) == [x \in (DOMAIN d) \cup {k} |-> IF x = k THEN v ELSE d[x]]
Del(d, k) == [x \in (DOMAIN d) \ {k} |-> d[x]]

\* list membership, list.append, list.remove (first occurrence)
InList(l, c) == \E i \in 1..Len(l) : l[i] = c
RECURSIVE ListRemove(_, _)
ListRemove(l, c) ==
    IF l = <<>> THEN <<>>
    ELSE IF Head(l) = c THEN Tail(l)
    ELSE <<Head(l)>> \o ListRemove(Tail(l), c)

ListSet(l) == {l[i] : i \in 1..Len(l)}

\* The subscriber identities recorded for a symbol.
Subscribers(s) ==
    IF Has(active_subscriptions, s) THEN ListSet(active_subscriptions[s]) ELSE {}

\* ------------------------------------------------------------------- Init
\* place_trade / close_trade before a call: nothing read from the venue, no
\* volume argument (None), no request, no result.
NoInfo == [found |-> FALSE, trade_mode |-> 0, volume_min |-> 0, volume_max |-> 0,
           volume_step |-> 1, stops_level |-> 0, filling_mode |-> 0]
NoTick == [found |-> FALSE, bid |-> 0, ask |-> 0]
NoPosition == [found |-> FALSE, type |-> "BUY", volume |-> 0]
NoVolume == [given |-> FALSE, value |-> 0]
NoResult == [ok |-> FALSE, msg |-> "pending", detail |-> "", arg |-> 0]
NoCall == [op |-> "none", volume |-> NoVolume, order_type |-> "", sl_distance |-> 0,
           tp_distance |-> 0, max_retries |-> 0, position |-> NoPosition,
           info |-> NoInfo, tick |-> NoTick, supported_fillings |-> <<>>]
NoRequest == [volume |-> 0, type |-> "", price |-> 0, deviation |-> 0,
              type_filling |-> "", has_sl |-> FALSE, sl |-> 0,
              has_tp |-> FALSE, tp |-> 0, attempt |-> 0]

NoFetch == [ok |-> FALSE, sig |-> None, pub |-> FALSE]

\* get_price before it has returned anything.
NoData == [ok |-> FALSE, code |-> 0, bid |-> 0, ask |-> 0, high |-> 0, low |-> 0]

Init ==
    /\ connected = FALSE
    /\ shutdown_event = FALSE
    /\ mt5_lock = NoThread
    /\ session = "closed"
    /\ active_subscriptions = EmptyDict
    /\ price_threads = EmptyDict
    /\ rooms = [s \in Symbols |-> {}]
    /\ wpc = <<>>
    /\ wsym = <<>>
    /\ last_price = <<>>
    /\ error_count = <<>>
    /\ consec = <<>>
    /\ lastFetch = <<>>
    /\ lastPub = <<>>
    /\ price_data = <<>>
    /\ hpc = [c \in Clients |-> "idle"]
    /\ hsym = [c \in Clients |-> CHOOSE s \in Symbols : TRUE]
    /\ hrest = [c \in Clients |-> <<>>]
    /\ hwas = [c \in Clients |-> FALSE]
    /\ apc = "idle"
    /\ discStreak = 0
    /\ dquiet = TRUE
    /\ arest = <<>>
    /\ asym = CHOOSE s \in Symbols : TRUE
    /\ rpc = "idle"
    /\ tpc = "idle"
    /\ tcall = NoCall
    /\ tloc = NoRequest
    /\ tsent = <<>>
    /\ tresult = NoResult
    /\ symbol_data = EmptyDict
    /\ qpc = "idle"
    /\ qsym = CHOOSE s \in Symbols : TRUE
    /\ qres = NoData

\* ------------------------------------------------------------- get_price
Min2(a, b) == IF a < b THEN a ELSE b
Max2(a, b) == IF a > b THEN a ELSE b

\* M1 bars the venue may return for copy_rates_from_pos (close, high, low).
Bars == {[close |-> 2, high |-> 3, low |-> 1]}

\* What the venue calls of get_price (symbol_select, symbol_info_tick,
\* copy_rates_from_pos) can yield: symbol_select refuses the symbol (line 138,
\* code 1006), there is neither a tick nor a bar (line 147, code 1009), the
\* tick's bid and ask, or (lines 157-160) the last M1 bar: its close as both
\* bid and ask, with its high and low.
\* (tick: the data is that of symbol_info_tick, not of the rate fallback.)
TickData(tick) ==
    [ok |-> TRUE, code |-> 0, tick |-> TRUE, bid |-> tick.bid, ask |-> tick.ask,
     high |-> 0, low |-> 0]
RateData(rate) ==
    [ok |-> TRUE, code |-> 0, tick |-> FALSE, bid |-> rate.close, ask |-> rate.close,
     high |-> rate.high, low |-> rate.low]
SymbolNotSelected ==
    [ok |-> FALSE, code |-> 1006, tick |-> FALSE, bid |-> 0, ask |-> 0,
     high |-> 0, low |-> 0]
NoPriceData ==
    [ok |-> FALSE, code |-> 1009, tick |-> FALSE, bid |-> 0, ask |-> 0,
     high |-> 0, low |-> 0]
PriceFailures == {SymbolNotSelected, NoPriceData}
PriceResults ==
    PriceFailures \cup {TickData(t) : t \in Ticks} \cup {RateData(b) : b \in Bars}

\* line 167: self.symbol_data.get(symbol, {"high": None, "low": None, ...});
\* None is written 0 (`or` at lines 168-169 treats None and 0 alike).
CurrentData(s) ==
    IF Has(symbol_data, s) THEN symbol_data[s] ELSE [high |-> 0, low |-> 0]

\* x or y of Python for a number or None x
Or(x, y) == IF x = 0 THEN y ELSE x

\* lines 168, 170: current_high = max(current_data["high"] or tick.bid,
\*                                     tick.bid, tick.ask)
CurrentHigh(s, res) == Max2(Max2(Or(CurrentData(s).high, res.bid), res.bid), res.ask)

\* lines 169, 171: current_low = min(current_data["low"] or tick.bid,
\*                                   tick.bid, tick.ask)
CurrentLow(s, res) == Min2(Min2(Or(CurrentData(s).low, res.bid), res.bid), res.ask)

\* lines 173-178: self.symbol_data[symbol] = {...} on a tick; the failures and
\* the rate fallback return before it.
UpdateSymbolData(s, res) ==
    IF res.ok /\ res.tick
    THEN Put(symbol_data, s, [high |-> CurrentHigh(s, res), low |-> CurrentLow(s, res)])
    ELSE symbol_data

\* lines 140, 149, 153-162, 180-190: the data get_price returns: the code of
\* the failure, the bar, or the tick with the running high and low.
PriceData(s, res) ==
    IF ~res.ok THEN [NoData EXCEPT !.code = res.code]
    ELSE IF res.tick
    THEN [ok |-> TRUE, code |-> 0, bid |-> res.bid, ask |-> res.ask,
          high |-> CurrentHigh(s, res), low |-> CurrentLow(s, res)]
    ELSE [ok |-> TRUE, code |-> 0, bid |-> res.bid, ask |-> res.ask,
          high |-> res.high, low |-> res.low]

\* current_price = f"{price_data['bid']}-{price_data['ask']}"
Signature(data) == <<data.bid, "-", data.ask>>

\* socketio.emit('market-data', price_data, room=f'symbol_{symbol}'):
\* the identities the event is delivered to.
Recipients(s) == rooms[s]


\* Line 198 is two calls, self.active_subscriptions.setdefault(symbol, [])
\* and .append(client_id) on the list it returned. A handler between the two
\* holds that list: at "s198a" the list is the entry of the symbol, at "s198d"
\* the entry has been deleted or replaced since and the list is in the
\* dictionary no more.
HoldsList == {"s198a", "s198d"}

\* The entry of symbol s is deleted or replaced by a new list: the handlers
\* holding the old list keep a list that is no entry of the dictionary.
Detached(h, s) ==
    [c \in DOMAIN h |-> IF h[c] = "s198a" /\ hsym[c] = s THEN "s198d" ELSE h[c]]

\* ------------------------------------------------------------ price_worker
\* Mutant of BreakerTrips: the threshold is compared with > instead of >=.
BreakerTripsLate(count) == count > max_errors

\* if error_count >= max_errors: break
BreakerTrips(count) == count >= max_errors

\* Mutant of QuoteChanged: every fetched quote counts as changed.
QuoteAlwaysChanged(sig, last) == TRUE

\* if current_price != last_price
QuoteChanged(sig, last) == sig # last

\* The loop condition of line 208 is false: the worker goes to its cleanup.
\* (The worker's locals are not read after the loop and are cleared at once.)
LeaveLoop(w) ==
    /\ wpc' = [wpc EXCEPT ![w] = "x231"]
    /\ last_price' = [last_price EXCEPT ![w] = None]
    /\ lastPub' = [lastPub EXCEPT ![w] = None]
    /\ error_count' = [error_count EXCEPT ![w] = 0]
    /\ consec' = [consec EXCEPT ![w] = 0]
    /\ lastFetch' = [lastFetch EXCEPT ![w] = NoFetch]
    /\ UNCHANGED price_data

\* The thread ends (after line 235, or with the KeyError of line 232 or 234,
\* which nothing catches).
ThreadEnds(w) ==
    /\ wpc' = [wpc EXCEPT ![w] = "dead"]
    /\ error_count' = [error_count EXCEPT ![w] = 0]
    /\ consec' = [consec EXCEPT ![w] = 0]
    /\ lastFetch' = [lastFetch EXCEPT ![w] = NoFetch]
    /\ UNCHANGED <<last_price, lastPub, price_data>>

\* lines 218-224: a failed fetch: error_count += 1, then break or sleep and
\* loop. (last_price is not read after the break and is cleared at once.)
WorkerFailed(w) ==
    /\ error_count' = [error_count EXCEPT ![w] = @ + 1]
    /\ consec' = [consec EXCEPT ![w] = @ + 1]
    /\ lastFetch' = [lastFetch EXCEPT ![w] = NoFetch]
    /\ IF BreakerTrips(error_count[w] + 1)
       THEN /\ wpc' = [wpc EXCEPT ![w] = "x231"]
            /\ last_price' = [last_price EXCEPT ![w] = None]
            /\ lastPub' = [lastPub EXCEPT ![w] = None]
       ELSE /\ wpc' = [wpc EXCEPT ![w] = "loop"]
            /\ UNCHANGED <<last_price, lastPub>>
    /\ UNCHANGED <<wsym, price_data>>

\* line 208, first operand: symbol in self.price_threads
WorkerLoop(w) ==
    /\ w \in Workers
    /\ wpc[w] = "loop"
    /\ IF Has(price_threads, wsym[w])
       THEN /\ wpc' = [wpc EXCEPT ![w] = "l208c"]
            /\ UNCHANGED workerLocals
       ELSE LeaveLoop(w)
    /\ UNCHANGED wsym
    /\ UNCHANGED <<sessionVars, mt5_lock, active_subscriptions, price_threads,
                   rooms, handlerVars, adminVars, restVars>>

\* line 208, second operand: self.connected
WorkerLoopConnected(w) ==
    /\ w \in Workers
    /\ wpc[w] = "l208c"
    /\ IF connected
       THEN /\ wpc' = [wpc EXCEPT ![w] = "l208s"]
            /\ UNCHANGED workerLocals
       ELSE LeaveLoop(w)
    /\ UNCHANGED wsym
    /\ UNCHANGED <<sessionVars, mt5_lock, active_subscriptions, price_threads,
                   rooms, handlerVars, adminVars, restVars>>

\* line 208, third operand: not self.shutdown_event.is_set()
WorkerLoopEvent(w) ==
    /\ w \in Workers
    /\ wpc[w] = "l208s"
    /\ IF ~shutdown_event
       THEN /\ wpc' = [wpc EXCEPT ![w] = "call"]
            /\ UNCHANGED workerLocals
       ELSE LeaveLoop(w)
    /\ UNCHANGED wsym
    /\ UNCHANGED <<sessionVars, mt5_lock, active_subscriptions, price_threads,
                   rooms, handlerVars, adminVars, restVars>>

\* lines 210, 133-135: get_price is entered and checks self.connected.
WorkerCall(w) ==
    /\ w \in Workers
    /\ wpc[w] = "call"
    /\ IF connected
       THEN /\ wpc' = [wpc EXCEPT ![w] = "wait"]
            /\ UNCHANGED <<wsym, workerLocals>>
       ELSE WorkerFailed(w)
    /\ UNCHANGED <<sessionVars, mt5_lock, active_subscriptions, price_threads,
                   rooms, handlerVars, adminVars, restVars>>

\* Mutant of WorkerAcquire: get_price goes on to its venue calls without
\* waiting for the lock.
WorkerAcquireUnguarded(w) ==
    /\ w \in Workers
    /\ wpc[w] = "wait"
    /\ mt5_lock' = WorkerThread(w)
    /\ wpc' = [wpc EXCEPT ![w] = "in"]
    /\ UNCHANGED <<wsym, workerLocals>>
    /\ UNCHANGED <<sessionVars, active_subscriptions, price_threads,
                   rooms, handlerVars, adminVars, restVars>>

\* line 137: with self.mt5_lock (blocks until the lock is free).
WorkerAcquire(w) ==
    /\ w \in Workers
    /\ wpc[w] = "wait"
    /\ mt5_lock = NoThread
    /\ mt5_lock' = WorkerThread(w)
    /\ wpc' = [wpc EXCEPT ![w] = "in"]
    /\ UNCHANGED <<wsym, workerLocals>>
    /\ UNCHANGED <<sessionVars, active_subscriptions, price_threads,
                   rooms, handlerVars, adminVars, restVars>>

\* lines 138-190, 210: the venue calls return res, symbol_data is updated on a
\* tick, the lock is released and get_price returns its data to the worker; a
\* failure is counted (lines 218-224).
WorkerFetch(w, res) ==
    /\ w \in Workers
    /\ wpc[w] = "in"
    /\ mt5_lock' = NoThread
    /\ symbol_data' = UpdateSymbolData(wsym[w], res)
    /\ IF res.ok
       THEN /\ price_data' = [price_data EXCEPT ![w] = PriceData(wsym[w], res)]
            /\ consec' = [consec EXCEPT ![w] = 0]
            /\ wpc' = [wpc EXCEPT ![w] = "w211"]
            /\ UNCHANGED <<wsym, last_price, error_count, lastFetch, lastPub>>
       ELSE WorkerFailed(w)
    /\ UNCHANGED <<sessionVars, active_subscriptions, price_threads,
                   rooms, handlerVars, adminVars, rpc, tradeVars, quoteVars>>

\* lines 211-217, 224: the quote is compared with the last one published; a
\* changed quote is emitted to the room as it is now and remembered, and
\* error_count is reset; then the worker sleeps and loops.
WorkerPublish(w) ==
    /\ w \in Workers
    /\ wpc[w] = "w211"
    /\ LET sig == Signature(price_data[w])
           changed == QuoteChanged(sig, last_price[w])
       IN /\ last_price' = [last_price EXCEPT ![w] = IF changed THEN sig ELSE @]
          /\ error_count' = [error_count EXCEPT ![w] = IF changed THEN 0 ELSE @]
          /\ lastPub' = [lastPub EXCEPT ![w] = IF changed THEN sig ELSE @]
          /\ lastFetch' = [lastFetch EXCEPT ![w] =
                             [ok |-> TRUE, sig |-> sig, pub |-> changed]]
    /\ price_data' = [price_data EXCEPT ![w] = NoData]
    /\ wpc' = [wpc EXCEPT ![w] = "loop"]
    /\ UNCHANGED <<wsym, consec>>
    /\ UNCHANGED <<sessionVars, mt5_lock, active_subscriptions, price_threads,
                   rooms, handlerVars, adminVars, restVars>>

\* line 231: if symbol in self.price_threads
WorkerExit231(w) ==
    /\ w \in Workers
    /\ wpc[w] = "x231"
    /\ wpc' = [wpc EXCEPT ![w] = IF Has(price_threads, wsym[w]) THEN "x232" ELSE "x233"]
    /\ UNCHANGED <<wsym, workerLocals>>
    /\ UNCHANGED <<sessionVars, mt5_lock, active_subscriptions, price_threads,
                   rooms, handlerVars, adminVars, restVars>>

\* line 232: del self.price_threads[symbol]; a KeyError (the entry was deleted
\* since line 231) ends the thread.
WorkerExit232(w) ==
    /\ w \in Workers
    /\ wpc[w] = "x232"
    /\ IF Has(price_threads, wsym[w])
       THEN /\ price_threads' = Del(price_threads, wsym[w])
            /\ wpc' = [wpc EXCEPT ![w] = "x233"]
            /\ UNCHANGED workerLocals
       ELSE /\ ThreadEnds(w)
            /\ UNCHANGED price_threads
    /\ UNCHANGED wsym
    /\ UNCHANGED <<sessionVars, mt5_lock, active_subscriptions,
                   rooms, handlerVars, adminVars, restVars>>

\* line 233: if symbol in self.active_subscriptions (else the thread ends).
WorkerExit233(w) ==
    /\ w \in Workers
    /\ wpc[w] = "x233"
    /\ IF Has(active_subscriptions, wsym[w])
       THEN /\ wpc' = [wpc EXCEPT ![w] = "x234"]
            /\ UNCHANGED workerLocals
       ELSE ThreadEnds(w)
    /\ UNCHANGED wsym
    /\ UNCHANGED <<sessionVars, mt5_lock, active_subscriptions, price_threads,
                   rooms, handlerVars, adminVars, restVars>>

\* lines 234-235: del self.active_subscriptions[symbol] (or its KeyError); the
\* thread ends.
WorkerExit234(w) ==
    /\ w \in Workers
    /\ wpc[w] = "x234"
    /\ active_subscriptions' = Del(active_subscriptions, wsym[w])
    /\ hpc' = Detached(hpc, wsym[w])
    /\ ThreadEnds(w)
    /\ UNCHANGED wsym
    /\ UNCHANGED <<sessionVars, mt5_lock, price_threads,
                   rooms, hsym, hrest, hwas, adminVars, restVars>>

\* ------------------------------------------------------ start_price_stream
\* Lists of symbols a request-data or stop-data event carries.
RECURSIVE Lists(_)
Lists(n) ==
    IF n = 0 THEN {<<>>}
    ELSE Lists(n - 1) \cup {Append(l, s) : l \in Lists(n - 1), s \in Symbols}
SymbolLists == Lists(MaxRequest) \ {<<>>}

\* handle_request_data, lines 537-542: refused while not connected; otherwise
\* the handler goes through the list of symbols.
RequestData(c, symbols) ==
    /\ hpc[c] = "idle"
    /\ connected
    /\ hrest' = [hrest EXCEPT ![c] = symbols]
    /\ hpc' = [hpc EXCEPT ![c] = "r543"]
    /\ UNCHANGED <<hsym, hwas, sessionVars, mt5_lock, active_subscriptions,
                   price_threads, rooms, workerVars, adminVars, restVars>>

\* lines 543-545: the next symbol of the list: the client enters the room of
\* the symbol and start_price_stream is called; after the last one the handler
\* returns.
Request543(c) ==
    /\ hpc[c] = "r543"
    /\ IF hrest[c] = <<>>
       THEN /\ hpc' = [hpc EXCEPT ![c] = "idle"]
            /\ UNCHANGED <<hsym, hrest, rooms>>
       ELSE /\ rooms' = [rooms EXCEPT ![Head(hrest[c])] = @ \cup {c}]
            /\ hsym' = [hsym EXCEPT ![c] = Head(hrest[c])]
            /\ hrest' = [hrest EXCEPT ![c] = Tail(@)]
            /\ hpc' = [hpc EXCEPT ![c] = "s196"]
    /\ UNCHANGED <<hwas, sessionVars, mt5_lock, active_subscriptions,
                   price_threads, workerVars, adminVars, restVars>>

\* line 196: if symbol in self.price_threads
Start196(c) ==
    /\ hpc[c] = "s196"
    /\ hpc' = [hpc EXCEPT ![c] = IF Has(price_threads, hsym[c]) THEN "s197" ELSE "s201"]
    /\ hwas' = [hwas EXCEPT ![c] = c \in Subscribers(hsym[c])]
    /\ UNCHANGED <<hsym, hrest, sessionVars, mt5_lock, active_subscriptions,
                   price_threads, rooms, workerVars, adminVars, restVars>>

\* line 197: if client_id not in self.active_subscriptions.get(symbol, []);
\* a client that is listed: return (line 199).
Start197(c) ==
    /\ hpc[c] = "s197"
    /\ IF c \in Subscribers(hsym[c])
       THEN /\ hpc' = [hpc EXCEPT ![c] = "r543"]
            /\ hwas' = [hwas EXCEPT ![c] = FALSE]
       ELSE /\ hpc' = [hpc EXCEPT ![c] = "s198"]
            /\ UNCHANGED hwas
    /\ UNCHANGED <<hsym, hrest, sessionVars, mt5_lock, active_subscriptions,
                   price_threads, rooms, workerVars, adminVars, restVars>>

\* line 198, first call: the list of the symbol, an empty one being entered
\* when there is none.
Start198(c) ==
    /\ hpc[c] = "s198"
    /\ active_subscriptions' =
         IF Has(active_subscriptions, hsym[c]) THEN active_subscriptions
         ELSE Put(active_subscriptions, hsym[c], <<>>)
    /\ hpc' = [hpc EXCEPT ![c] = "s198a"]
    /\ UNCHANGED <<hsym, hrest, hwas, sessionVars, mt5_lock, price_threads, rooms,
                   workerVars, adminVars, restVars>>

\* lines 198-199, second call: the client is appended to the list the handler
\* holds (which changes the dictionary only while the list is its entry);
\* return.
Start198Append(c) ==
    /\ hpc[c] \in HoldsList
    /\ active_subscriptions' =
         IF hpc[c] = "s198a"
         THEN Put(active_subscriptions, hsym[c],
                  Append(active_subscriptions[hsym[c]], c))
         ELSE active_subscriptions
    /\ hpc' = [hpc EXCEPT ![c] = "r543"]
    /\ hwas' = [hwas EXCEPT ![c] = FALSE]
    /\ UNCHANGED <<hsym, hrest, sessionVars, mt5_lock, price_threads, rooms,
                   workerVars, adminVars, restVars>>

\* line 201: self.active_subscriptions[symbol] = [client_id]
Start201(c) ==
    /\ hpc[c] = "s201"
    /\ active_subscriptions' = Put(active_subscriptions, hsym[c], <<c>>)
    /\ hpc' = [Detached(hpc, hsym[c]) EXCEPT ![c] = "s238"]
    /\ UNCHANGED <<hsym, hrest, hwas, sessionVars, mt5_lock, price_threads, rooms,
                   workerVars, adminVars, restVars>>

\* lines 237-239: a new thread is created, registered for the symbol and
\* started.
Start238(c) ==
    /\ hpc[c] = "s238"
    /\ price_threads' = Put(price_threads, hsym[c], Len(wpc) + 1)
    /\ wpc' = Append(wpc, "loop")
    /\ wsym' = Append(wsym, hsym[c])
    /\ last_price' = Append(last_price, None)
    /\ lastPub' = Append(lastPub, None)
    /\ error_count' = Append(error_count, 0)
    /\ consec' = Append(consec, 0)
    /\ lastFetch' = Append(lastFetch, NoFetch)
    /\ price_data' = Append(price_data, NoData)
    /\ hpc' = [hpc EXCEPT ![c] = "r543"]
    /\ hwas' = [hwas EXCEPT ![c] = FALSE]
    /\ UNCHANGED <<hsym, hrest, sessionVars, mt5_lock, active_subscriptions, rooms,
                   adminVars, restVars>>

\* ------------------------------------------------------- stop_price_stream
\* Positions of a handler inside stop_price_stream(symbol, client_id), called
\* by handle_stop_data (u...) or by handle_disconnect (d...).
StopDataPositions == {"u244", "u247", "u248", "u249", "u250", "u251", "u252"}
DisconnectPositions == {"d244", "d247", "d248", "d249", "d250", "d251", "d252"}

\* The position at a line of stop_price_stream, for the handler that is at pc.
At(pc, u, d) == IF pc \in StopDataPositions \cup {"u556"} THEN u ELSE d

\* Where a handler continues when stop_price_stream returns (also by the
\* KeyError caught at line 260): at the loop of its list of symbols.
AfterStop(pc) == At(pc, "u556", "d525")

\* line 249: if not self.active_subscriptions[symbol]
LastSubscriberGone(l) == l = <<>>

\* handle_stop_data, lines 553-555: the handler goes through the list of
\* symbols.
StopData(c, symbols) ==
    /\ hpc[c] = "idle"
    /\ hrest' = [hrest EXCEPT ![c] = symbols]
    /\ hpc' = [hpc EXCEPT ![c] = "u556"]
    /\ UNCHANGED <<hsym, hwas, sessionVars, mt5_lock, active_subscriptions,
                   price_threads, rooms, workerVars, adminVars, restVars>>

\* lines 556-560: the next symbol of the list: the client leaves the room of
\* the symbol and stop_price_stream is called; after the last one the handler
\* returns.
Stop556(c) ==
    /\ hpc[c] = "u556"
    /\ IF hrest[c] = <<>>
       THEN /\ hpc' = [hpc EXCEPT ![c] = "idle"]
            /\ UNCHANGED <<hsym, hrest, rooms>>
       ELSE /\ rooms' = [rooms EXCEPT ![Head(hrest[c])] = @ \ {c}]
            /\ hsym' = [hsym EXCEPT ![c] = Head(hrest[c])]
            /\ hrest' = [hrest EXCEPT ![c] = Tail(@)]
            /\ hpc' = [hpc EXCEPT ![c] = "u244"]
    /\ UNCHANGED <<hwas, sessionVars, mt5_lock, active_subscriptions,
                   price_threads, workerVars, adminVars, restVars>>

\* line 244: if symbol not in self.active_subscriptions: return
Stop244(c) ==
    /\ hpc[c] \in {"u244", "d244"}
    /\ hpc' = [hpc EXCEPT ![c] = IF Has(active_subscriptions, hsym[c])
                                  THEN At(@, "u247", "d247") ELSE AfterStop(@)]
    /\ UNCHANGED <<hsym, hrest, hwas, sessionVars, mt5_lock, active_subscriptions,
                   price_threads, rooms, workerVars, adminVars, restVars>>

\* line 247: if client_id in self.active_subscriptions[symbol]
\* (a KeyError, the entry having vanished, is caught at line 260).
Stop247(c) ==
    /\ hpc[c] \in {"u247", "d247"}
    /\ hpc' = [hpc EXCEPT ![c] =
                 IF ~Has(active_subscriptions, hsym[c]) THEN AfterStop(@)
                 ELSE IF InList(active_subscriptions[hsym[c]], c)
                 THEN At(@, "u248", "d248")
                 ELSE At(@, "u249", "d249")]
    /\ UNCHANGED <<hsym, hrest, hwas, sessionVars, mt5_lock, active_subscriptions,
                   price_threads, rooms, workerVars, adminVars, restVars>>

\* line 248: self.active_subscriptions[symbol].remove(client_id)
\* (KeyError or ValueError: caught at line 260).
Stop248(c) ==
    /\ hpc[c] \in {"u248", "d248"}
    /\ IF Has(active_subscriptions, hsym[c])
          /\ InList(active_subscriptions[hsym[c]], c)
       THEN /\ active_subscriptions' =
                 Put(active_subscriptions, hsym[c],
                     ListRemove(active_subscriptions[hsym[c]], c))
            /\ hpc' = [hpc EXCEPT ![c] = At(@, "u249", "d249")]
       ELSE /\ hpc' = [hpc EXCEPT ![c] = AfterStop(@)]
            /\ UNCHANGED active_subscriptions
    /\ UNCHANGED <<hsym, hrest, hwas, sessionVars, mt5_lock, price_threads, rooms,
                   workerVars, adminVars, restVars>>

\* line 249: if not self.active_subscriptions[symbol] (KeyError: caught).
Stop249(c) ==
    /\ hpc[c] \in {"u249", "d249"}
    /\ hpc' = [hpc EXCEPT ![c] =
                 IF Has(active_subscriptions, hsym[c])
                    /\ LastSubscriberGone(active_subscriptions[hsym[c]])
                 THEN At(@, "u250", "d250")
                 ELSE AfterStop(@)]
    /\ UNCHANGED <<hsym, hrest, hwas, sessionVars, mt5_lock, active_subscriptions,
                   price_threads, rooms, workerVars, adminVars, restVars>>

\* line 250: del self.active_subscriptions[symbol] (KeyError: caught).
Stop250(c) ==
    /\ hpc[c] \in {"u250", "d250"}
    /\ IF Has(active_subscriptions, hsym[c])
       THEN /\ active_subscriptions' = Del(active_subscriptions, hsym[c])
            /\ hpc' = [Detached(hpc, hsym[c]) EXCEPT ![c] = At(@, "u251", "d251")]
       ELSE /\ hpc' = [hpc EXCEPT ![c] = AfterStop(@)]
            /\ UNCHANGED active_subscriptions
    /\ UNCHANGED <<hsym, hrest, hwas, sessionVars, mt5_lock, price_threads, rooms,
                   workerVars, adminVars, restVars>>

\* line 251: if symbol in self.price_threads
Stop251(c) ==
    /\ hpc[c] \in {"u251", "d251"}
    /\ hpc' = [hpc EXCEPT ![c] = IF Has(price_threads, hsym[c])
                                  THEN At(@, "u252", "d252") ELSE AfterStop(@)]
    /\ UNCHANGED <<hsym, hrest, hwas, sessionVars, mt5_lock, active_subscriptions,
                   price_threads, rooms, workerVars, adminVars, restVars>>

\* lines 252-253: del self.price_threads[symbol] (KeyError: caught).
Stop252(c) ==
    /\ hpc[c] \in {"u252", "d252"}
    /\ price_threads' = Del(price_threads, hsym[c])
    /\ hpc' = [hpc EXCEPT ![c] = AfterStop(@)]
    /\ UNCHANGED <<hsym, hrest, hwas, sessionVars, mt5_lock, active_subscriptions, rooms,
                   workerVars, adminVars, restVars>>

\* list(d.keys()): the keys of a dictionary as a list.
Keys(d) ==
    CHOOSE l \in [1..Cardinality(DOMAIN d) -> DOMAIN d] : ListSet(l) = DOMAIN d

\* handle_disconnect, line 525: the snapshot list(active_subscriptions.keys()).
ClientDisconnect(c) ==
    /\ hpc[c] = "idle"
    /\ hrest' = [hrest EXCEPT ![c] = Keys(active_subscriptions)]
    /\ hpc' = [hpc EXCEPT ![c] = "d525"]
    /\ UNCHANGED <<hsym, hwas, sessionVars, mt5_lock, active_subscriptions, price_threads,
                   rooms, workerVars, adminVars, restVars>>

\* handle_disconnect, lines 525-526: the next symbol of the snapshot; after
\* the last one the socket server drops the client from every room.
Disconnect525(c) ==
    /\ hpc[c] = "d525"
    /\ IF hrest[c] = <<>>
       THEN /\ rooms' = [s \in Symbols |-> rooms[s] \ {c}]
            /\ hpc' = [hpc EXCEPT ![c] = "idle"]
            /\ UNCHANGED <<hsym, hrest>>
       ELSE /\ hsym' = [hsym EXCEPT ![c] = Head(hrest[c])]
            /\ hrest' = [hrest EXCEPT ![c] = Tail(@)]
            /\ hpc' = [hpc EXCEPT ![c] = "d244"]
            /\ UNCHANGED rooms
    /\ UNCHANGED <<hwas, sessionVars, mt5_lock, active_subscriptions, price_threads,
                   workerVars, adminVars, restVars>>

\* ------------------------------------------------------ connect, disconnect
\* What the venue answers to connect: mt5.initialize() fails, mt5.login() is
\* refused, the account has trade_expert off, or all is well.
ConnectOutcomes == {"init_failed", "login_failed", "no_expert", "ok"}
LoggedIn == {"no_expert", "ok"}

\* line 39: with self.mt5_lock
ConnectAcquire ==
    /\ apc = "idle"
    /\ mt5_lock = NoThread
    /\ mt5_lock' = AdminThread
    /\ apc' = "c40"
    /\ UNCHANGED <<discStreak, dquiet, adminLocals, sessionVars, active_subscriptions,
                   price_threads, rooms, workerVars, handlerVars, restVars>>

\* lines 40-50: mt5.initialize() and mt5.login(); a failure is returned and
\* the lock released; after a login self.connected = True.
ConnectBody(outcome) ==
    /\ apc = "c40"
    /\ session' = IF outcome = "init_failed" THEN session ELSE "open"
    /\ connected' = IF outcome \in LoggedIn THEN TRUE ELSE connected
    /\ discStreak' = 0
    /\ mt5_lock' = IF outcome \in LoggedIn THEN mt5_lock ELSE NoThread
    /\ apc' = IF outcome \in LoggedIn THEN "c51" ELSE "idle"
    /\ UNCHANGED <<shutdown_event, dquiet, adminLocals, active_subscriptions,
                   price_threads, rooms, workerVars, handlerVars, restVars>>

\* line 51: self.shutdown_event.clear()
ConnectClear ==
    /\ apc = "c51"
    /\ shutdown_event' = FALSE
    /\ apc' = "c52"
    /\ UNCHANGED <<connected, session, discStreak, dquiet, adminLocals, mt5_lock,
                   active_subscriptions, price_threads, rooms, workerVars,
                   handlerVars, restVars>>

\* lines 52-58: mt5.account_info(); failure when trade_expert is off, success
\* otherwise; the lock is released.
ConnectReturn(outcome) ==
    /\ apc = "c52"
    /\ outcome \in LoggedIn
    /\ mt5_lock' = NoThread
    /\ apc' = "idle"
    /\ UNCHANGED <<discStreak, dquiet, adminLocals, sessionVars, active_subscriptions,
                   price_threads, rooms, workerVars, handlerVars, restVars>>

\* line 65: with self.mt5_lock
DisconnectAcquire ==
    /\ apc = "idle"
    /\ mt5_lock = NoThread
    /\ mt5_lock' = AdminThread
    /\ apc' = "d66"
    /\ UNCHANGED <<discStreak, dquiet, adminLocals, sessionVars, active_subscriptions,
                   price_threads, rooms, workerVars, handlerVars, restVars>>

\* A handle_request_data call of the client is under way, between its test
\* of connector.connected (line 537) and its return.
RequestUnderWay(c) ==
    hpc[c] \in {"r543", "s196", "s197", "s198", "s201", "s238"} \cup HoldsList

\* line 66: self.connected = False
DisconnectFlag ==
    /\ apc = "d66"
    /\ connected' = FALSE
    /\ dquiet' = \A c \in Clients : ~RequestUnderWay(c)
    /\ apc' = "d67"
    /\ UNCHANGED <<shutdown_event, session, discStreak, adminLocals, mt5_lock,
                   active_subscriptions, price_threads, rooms, workerVars,
                   handlerVars, restVars>>

\* line 67: self.shutdown_event.set()
DisconnectEvent ==
    /\ apc = "d67"
    /\ shutdown_event' = TRUE
    /\ apc' = "d69"
    /\ UNCHANGED <<connected, session, discStreak, dquiet, adminLocals, mt5_lock,
                   active_subscriptions, price_threads, rooms, workerVars,
                   handlerVars, restVars>>

\* line 69: the snapshot list(self.price_threads.keys())
DisconnectStop ==
    /\ apc = "d69"
    /\ arest' = Keys(price_threads)
    /\ apc' = "d70"
    /\ UNCHANGED <<asym, discStreak, dquiet, sessionVars, mt5_lock, active_subscriptions,
                   price_threads, rooms, workerVars, handlerVars, restVars>>

\* lines 69-70: the next symbol of the snapshot: stop_price_stream(symbol);
\* after the last one disconnect goes on to its join loop.
Disconnect70 ==
    /\ apc = "d70"
    /\ IF arest = <<>>
       THEN /\ apc' = "d72"
            /\ UNCHANGED adminLocals
       ELSE /\ asym' = Head(arest)
            /\ arest' = Tail(arest)
            /\ apc' = "a244"
    /\ UNCHANGED <<discStreak, dquiet, sessionVars, mt5_lock, active_subscriptions,
                   price_threads, rooms, workerVars, handlerVars, restVars>>

\* stop_price_stream(symbol) without a client, line 244:
\* if symbol not in self.active_subscriptions: return
StopAll244 ==
    /\ apc = "a244"
    /\ apc' = IF Has(active_subscriptions, asym) THEN "a255" ELSE "d70"
    /\ UNCHANGED <<discStreak, dquiet, adminLocals, sessionVars, mt5_lock,
                   active_subscriptions, price_threads, rooms, workerVars,
                   handlerVars, restVars>>

\* lines 246, 255: if symbol in self.active_subscriptions
StopAll255 ==
    /\ apc = "a255"
    /\ apc' = IF Has(active_subscriptions, asym) THEN "a256" ELSE "a257"
    /\ UNCHANGED <<discStreak, dquiet, adminLocals, sessionVars, mt5_lock,
                   active_subscriptions, price_threads, rooms, workerVars,
                   handlerVars, restVars>>

\* line 256: del self.active_subscriptions[symbol] (KeyError: caught at line
\* 260, stop_price_stream returns).
StopAll256 ==
    /\ apc = "a256"
    /\ active_subscriptions' = Del(active_subscriptions, asym)
    /\ hpc' = Detached(hpc, asym)
    /\ apc' = IF Has(active_subscriptions, asym) THEN "a257" ELSE "d70"
    /\ UNCHANGED <<discStreak, dquiet, adminLocals, sessionVars, mt5_lock, price_threads,
                   rooms, workerVars, hsym, hrest, hwas, restVars>>

\* line 257: if symbol in self.price_threads
StopAll257 ==
    /\ apc = "a257"
    /\ apc' = IF Has(price_threads, asym) THEN "a258" ELSE "d70"
    /\ UNCHANGED <<discStreak, dquiet, adminLocals, sessionVars, mt5_lock,
                   active_subscriptions, price_threads, rooms, workerVars,
                   handlerVars, restVars>>

\* lines 258-259: del self.price_threads[symbol] (KeyError: caught).
StopAll258 ==
    /\ apc = "a258"
    /\ price_threads' = Del(price_threads, asym)
    /\ apc' = "d70"
    /\ UNCHANGED <<discStreak, dquiet, adminLocals, sessionVars, mt5_lock,
                   active_subscriptions, rooms, workerVars, handlerVars, restVars>>

\* lines 72-74: each thread still registered is joined for at most 2 seconds:
\* the join returns when the thread has ended or when the time is up, with
\* the thread alive.
DisconnectJoin ==
    /\ apc = "d72"
    /\ apc' = "d76"
    /\ UNCHANGED <<discStreak, dquiet, adminLocals, sessionVars, mt5_lock,
                   active_subscriptions, price_threads, rooms, workerVars,
                   handlerVars, restVars>>

\* line 76: self.active_subscriptions.clear()
DisconnectClearSubscriptions ==
    /\ apc = "d76"
    /\ active_subscriptions' = EmptyDict
    /\ hpc' = [c \in Clients |-> IF hpc[c] = "s198a" THEN "s198d" ELSE hpc[c]]
    /\ apc' = "d77"
    /\ UNCHANGED <<discStreak, dquiet, adminLocals, sessionVars, mt5_lock, price_threads,
                   rooms, workerVars, hsym, hrest, hwas, restVars>>

\* Mutant of DisconnectClearThreads: price_threads.clear() is left out.
DisconnectKeepThreads ==
    /\ apc = "d77"
    /\ apc' = "d78"
    /\ UNCHANGED <<discStreak, dquiet, adminLocals, sessionVars, mt5_lock,
                   active_subscriptions, price_threads, rooms, workerVars,
                   handlerVars, restVars>>

\* line 77: self.price_threads.clear()
DisconnectClearThreads ==
    /\ apc = "d77"
    /\ price_threads' = EmptyDict
    /\ apc' = "d78"
    /\ UNCHANGED <<discStreak, dquiet, adminLocals, sessionVars, mt5_lock,
                   active_subscriptions, rooms, workerVars, handlerVars, restVars>>

\* lines 78-80: mt5.shutdown(); the lock is released and success returned.
DisconnectFinish ==
    /\ apc = "d78"
    /\ session' = "closed"
    /\ mt5_lock' = NoThread
    /\ discStreak' = IF discStreak < 2 THEN discStreak + 1 ELSE discStreak
    /\ apc' = "idle"
    /\ UNCHANGED <<dquiet, adminLocals, connected, shutdown_event, active_subscriptions,
                   price_threads, rooms, workerVars, handlerVars, restVars>>

\* ------------------------------------- queries and trades (REST endpoints)
\* get_symbols, get_symbol_info, place_trade, close_trade and get_positions:
\* "Not connected" unless self.connected (lines 87, 100, 265, 378, 472).
RestCall(op) ==
    /\ rpc = "idle"
    /\ op \in RestOps
    /\ rpc' = IF connected THEN "wait" ELSE "rejected"
    /\ UNCHANGED <<sessionVars, mt5_lock, active_subscriptions, price_threads,
                   rooms, workerVars, handlerVars, adminVars>>
    /\ UNCHANGED <<tradeVars, priceVars>>

\* The "Not connected" answer is returned.
RestReject ==
    /\ rpc = "rejected"
    /\ rpc' = "idle"
    /\ UNCHANGED <<sessionVars, mt5_lock, active_subscriptions, price_threads,
                   rooms, workerVars, handlerVars, adminVars>>
    /\ UNCHANGED <<tradeVars, priceVars>>

\* with self.mt5_lock (lines 91, 104, 137, 267, 380, 475)
RestAcquire ==
    /\ rpc = "wait"
    /\ mt5_lock = NoThread
    /\ mt5_lock' = RestThread
    /\ rpc' = "in"
    /\ UNCHANGED <<sessionVars, active_subscriptions, price_threads,
                   rooms, workerVars, handlerVars, adminVars>>
    /\ UNCHANGED <<tradeVars, priceVars>>

\* The venue calls of the operation return and the lock is released.
RestReturn ==
    /\ rpc = "in"
    /\ mt5_lock' = NoThread
    /\ rpc' = "idle"
    /\ UNCHANGED <<sessionVars, active_subscriptions, price_threads,
                   rooms, workerVars, handlerVars, adminVars>>
    /\ UNCHANGED <<tradeVars, priceVars>>

\* ------------------------------------------ GET /price/<symbol> (get_price)
\* lines 624-627, 133-135: get_price is called for the symbol; "Not connected"
\* (code 1004) unless self.connected.
PriceCall(s) ==
    /\ qpc = "idle"
    /\ qsym' = s
    /\ IF connected
       THEN /\ qpc' = "wait"
            /\ qres' = NoData
       ELSE /\ qpc' = "done"
            /\ qres' = [NoData EXCEPT !.code = 1004]
    /\ UNCHANGED <<sessionVars, mt5_lock, active_subscriptions, price_threads,
                   rooms, workerVars, handlerVars, adminVars, rpc, tradeVars,
                   symbol_data>>

\* line 137: with self.mt5_lock
PriceAcquire ==
    /\ qpc = "wait"
    /\ mt5_lock = NoThread
    /\ mt5_lock' = PriceThread
    /\ qpc' = "in"
    /\ UNCHANGED <<qsym, qres>>
    /\ UNCHANGED <<sessionVars, active_subscriptions, price_threads,
                   rooms, workerVars, handlerVars, adminVars, rpc, tradeVars,
                   symbol_data>>

\* lines 138-190: the venue calls return res, symbol_data is updated on a
\* tick, the data is returned and the lock released.
PriceFetch(res) ==
    /\ qpc = "in"
    /\ symbol_data' = UpdateSymbolData(qsym, res)
    /\ qres' = PriceData(qsym, res)
    /\ mt5_lock' = NoThread
    /\ qpc' = "done"
    /\ UNCHANGED qsym
    /\ UNCHANGED <<sessionVars, active_subscriptions, price_threads,
                   rooms, workerVars, handlerVars, adminVars, rpc, tradeVars>>

\* lines 628-631: the endpoint answers the request with the data.
PriceRespond ==
    /\ qpc = "done"
    /\ qpc' = "idle"
    /\ qres' = NoData
    /\ UNCHANGED qsym
    /\ UNCHANGED <<sessionVars, mt5_lock, active_subscriptions, price_threads,
                   rooms, workerVars, handlerVars, adminVars, rpc, tradeVars,
                   symbol_data>>

\* ------------------------------------------- place_trade and close_trade
\* Prices and distances are integers in units of 1/PointUnits of a point
\* (info.point), volumes are integers in a base lot unit; the code computes
\* with the floats they stand for.

\* round(x) of Python 3 for the float x = n / m, n and m in the units above:
\* the nearest integer. The operands are floats, so a quotient that is a tie
\* in exact arithmetic is, as a float, the tie itself (rounded to the even
\* integer) or a float just beside it (0.3 / 0.2 = 1.4999999999999998, rounded
\* to 1, while 3.0 / 2.0 = 1.5, rounded to 2): up tells that a tie goes to
\* the upper integer.
Round(n, m, up) ==
    LET q == n \div m
        r == n % m
    IN IF 2 * r < m THEN q
       ELSE IF 2 * r > m THEN q + 1
       ELSE IF up THEN q + 1 ELSE q

\* round(x, info.digits): to a whole number of points (0.1 + 0.005 =
\* 0.10500000000000001 is rounded to 0.11: a tie goes either way as above).
RoundDigits(x, up) == Round(x, PointUnits, up) * PointUnits

\* The ways the tie of round(n / m) can go; where there is no tie the way does
\* not matter.
TieWays(n, m) == IF 2 * (n % m) = m THEN BOOLEAN ELSE {FALSE}

\* Mutant of NormalizeVolume: the upper clamp is missing.
NormalizeVolumeNoCap(volume, info, up) ==
    Max2(info.volume_min, Round(volume, info.volume_step, up) * info.volume_step)

\* lines 292, 399:
\* max(volume_min, min(volume_max, round(volume / volume_step) * volume_step))
NormalizeVolume(volume, info, up) ==
    Max2(info.volume_min,
         Min2(info.volume_max,
              Round(volume, info.volume_step, up) * info.volume_step))

\* Mutant of SupportedFillings: the modes are collected in the reverse order.
SupportedFillingsReversed(filling_mode) ==
    (IF (filling_mode \div 4) % 2 = 1 THEN <<"RETURN">> ELSE <<>>) \o
    (IF (filling_mode \div 2) % 2 = 1 THEN <<"IOC">> ELSE <<>>) \o
    (IF filling_mode % 2 = 1 THEN <<"FOK">> ELSE <<>>)

\* lines 295-302, 404-411: the list built from the bits 1, 2, 4 of
\* info.filling_mode.
SupportedFillings(filling_mode) ==
    (IF filling_mode % 2 = 1 THEN <<"FOK">> ELSE <<>>) \o
    (IF (filling_mode \div 2) % 2 = 1 THEN <<"IOC">> ELSE <<>>) \o
    (IF (filling_mode \div 4) % 2 = 1 THEN <<"RETURN">> ELSE <<>>)

\* Mutant of FloorDistance: the requested distance is kept.
FloorDistanceRaw(distance, stop_level) == distance

\* lines 325-326, 330-331: if distance < stop_level: distance = stop_level
FloorDistance(distance, stop_level) ==
    IF distance < stop_level THEN stop_level ELSE distance

\* line 275: stop_level = stops_level * point
StopLevel(info) == info.stops_level * PointUnits

\* lines 283-284, 288-289, 326, 331: price - distance for the sl of a BUY and
\* the tp of a SELL, price + distance for the other two.
StopPrice(order_type, price, distance, isSl) ==
    IF (order_type = "BUY") = isSl THEN price - distance ELSE price + distance

\* lines 283-284, 288-289: sl and tp as first computed from the raw distances
\* (a distance of 0 stands for None as well: the code treats them alike).
RawStop(order_type, price, distance, isSl, up) ==
    IF distance > 0
    THEN RoundDigits(StopPrice(order_type, price, distance, isSl), up)
    ELSE 0

\* lines 324-333: the stop carried by the request. has: the request has the
\* field; value: the local sl / tp after these lines. (up, upFloor: the ties
\* of the two calls of round.)
RequestStop(order_type, price, distance, stop_level, isSl, up, upFloor) ==
    LET raw == RawStop(order_type, price, distance, isSl, up)
        floored == FloorDistance(distance, stop_level)
    IN IF distance > 0 /\ raw # 0
       THEN [has |-> TRUE,
             value |-> IF distance < stop_level
                       THEN RoundDigits(StopPrice(order_type, price, floored, isSl),
                                        upFloor)
                       ELSE raw]
       ELSE [has |-> FALSE, value |-> raw]

\* What the venue can tell about the instrument (mt5.symbol_info): nothing, or
\* its trade mode, volume limits, stops level (in points) and filling bits.
VolumeLimits == {[min |-> 2, max |-> 4, step |-> 2], [min |-> 1, max |-> 5, step |-> 3]}
Instruments ==
    {[found |-> TRUE, trade_mode |-> 4, volume_min |-> v.min, volume_max |-> v.max,
      volume_step |-> v.step, stops_level |-> sl, filling_mode |-> fm] :
        v \in VolumeLimits, sl \in {0, MaxStopsLevel}, fm \in 0..MaxFillingMode}
    \cup {[found |-> TRUE, trade_mode |-> 0, volume_min |-> 2, volume_max |-> 4,
           volume_step |-> 2, stops_level |-> 0, filling_mode |-> 1]}

\* mt5.symbol_info_tick: nothing, or bid and ask (whole points).
TradeTicks == {[found |-> TRUE, bid |-> 10 * PointUnits, ask |-> 11 * PointUnits],
               [found |-> TRUE, bid |-> PointUnits, ask |-> PointUnits]}

\* The venue data one call reads: symbol_select, symbol_info, symbol_info_tick.
VenueViews ==
    {[selected |-> FALSE, info |-> NoInfo, tick |-> NoTick],
     [selected |-> TRUE, info |-> NoInfo, tick |-> NoTick]}
    \cup {[selected |-> TRUE, info |-> i, tick |-> NoTick] : i \in Instruments}
    \cup {[selected |-> TRUE, info |-> i, tick |-> k] : i \in Instruments, k \in TradeTicks}

\* mt5.positions_get(ticket=...): nothing, or the position.
Positions == {NoPosition} \cup
             {[found |-> TRUE, type |-> ty, volume |-> v] : ty \in {"BUY", "SELL"}, v \in {2, 4}}

\* Arguments of the calls.
OrderTypes == {"BUY", "SELL", "HOLD"}
Volumes == 0..MaxVolume
Distances == {0, 1, PointUnits \div 2, PointUnits, 3 * PointUnits}
CloseVolumes == {NoVolume} \cup {[given |-> TRUE, value |-> v] : v \in {1, 6}}
RetryLimits == 0..max_retries

\* mt5.order_send: None with the code of mt5.last_error(), or a result with
\* its retcode.
OrderReplies ==
    {[none |-> TRUE, code |-> c] : c \in {RequoteCode, 0 - 1}}
    \cup {[none |-> FALSE, code |-> c] :
            c \in {TRADE_RETCODE_DONE, InvalidRequest, MarketClosed, RequoteCode,
                   10004}}

\* Mutant of IsRequote: every error code counts as a requote.
IsRequoteAlways(error_code) == TRUE

\* Mutant of IsRequote: no error code counts as a requote.
IsRequoteNever(error_code) == FALSE

\* line 339: if error_code == 10013
IsRequote(error_code) == error_code = RequoteCode

\* Mutant of ErrorCatalog: no code has a message of its own.
ErrorCatalogGeneric(retcode) == "Error"

\* lines 360-370, 453-463: error_codes.get(retcode, f"Error {retcode}")
ErrorCatalog(retcode) ==
    CASE retcode = 10018 -> "Market closed"
      [] retcode = 10019 -> "Insufficient funds"
      [] retcode = 10020 -> "Prices changed"
      [] retcode = 10021 -> "Invalid request (check volume, symbol, or market status)"
      [] retcode = 10022 -> "Invalid SL/TP"
      [] retcode = 10017 -> "Invalid parameters"
      [] retcode = 10027 -> "AutoTrading disabled"
      [] retcode = 10030 -> "Invalid order filling type"
      [] OTHER -> "Error"

Success == [ok |-> TRUE, msg |-> "", detail |-> "", arg |-> 0]
Failure(msg, detail, arg) == [ok |-> FALSE, msg |-> msg, detail |-> detail, arg |-> arg]

\* A return from inside `with self.mt5_lock`: the lock is released.
TradeReturn(result) ==
    /\ tresult' = result
    /\ tpc' = "done"
    /\ mt5_lock' = NoThread

\* lines 651-655, 678-682: the endpoint answers the request with the result;
\* the locals of the call are gone.
TradeRespond ==
    /\ tpc = "done"
    /\ tpc' = "idle"
    /\ tcall' = NoCall
    /\ tloc' = NoRequest
    /\ tsent' = <<>>
    /\ tresult' = NoResult
    /\ UNCHANGED <<sessionVars, mt5_lock, active_subscriptions, price_threads,
                   rooms, workerVars, handlerVars, adminVars, rpc, priceVars>>

\* lines 263-266: place_trade is called; "Not connected" unless self.connected.
PlaceCall(volume, order_type, sl_distance, tp_distance) ==
    /\ tpc = "idle"
    /\ tcall' = [NoCall EXCEPT !.op = "place_trade",
                               !.volume = [given |-> TRUE, value |-> volume],
                               !.order_type = order_type,
                               !.sl_distance = sl_distance,
                               !.tp_distance = tp_distance]
    /\ tloc' = NoRequest
    /\ tsent' = <<>>
    /\ IF connected
       THEN /\ tpc' = "p267"
            /\ tresult' = NoResult
       ELSE /\ tpc' = "done"
            /\ tresult' = Failure("Not connected", "", 0)
    /\ UNCHANGED <<sessionVars, mt5_lock, active_subscriptions, price_threads,
                   rooms, workerVars, handlerVars, adminVars, rpc, priceVars>>

\* lines 267, 380: with self.mt5_lock
TradeAcquire ==
    /\ tpc \in {"p267", "c380"}
    /\ mt5_lock = NoThread
    /\ mt5_lock' = TradeThread
    /\ tpc' = IF tpc = "p267" THEN "p268" ELSE "c381"
    /\ UNCHANGED <<tcall, tloc, tsent, tresult>>
    /\ UNCHANGED <<sessionVars, active_subscriptions, price_threads,
                   rooms, workerVars, handlerVars, adminVars, rpc, priceVars>>

\* The ways the ties of the two calls of round for a stop can go (lines
\* 283-289, and 326 or 331).
StopTies(order_type, price, distance, stop_level, isSl) ==
    TieWays(StopPrice(order_type, price, distance, isSl), PointUnits)
      \X TieWays(StopPrice(order_type, price, FloorDistance(distance, stop_level),
                           isSl), PointUnits)

\* lines 268-333: the instrument and the tick are read, the request is built.
PlaceBuild(view) ==
    /\ tpc = "p268"
    /\ LET info == view.info
           tick == view.tick
           order_type == tcall.order_type
           price == IF order_type = "BUY" THEN tick.ask ELSE tick.bid
           stop_level == StopLevel(info)
           supported_fillings == SupportedFillings(info.filling_mode)
       IN /\ tcall' = [tcall EXCEPT !.info = info, !.tick = tick,
                                    !.supported_fillings =
                                        IF info.found THEN supported_fillings ELSE <<>>]
          /\ IF ~view.selected
             THEN TradeReturn(Failure("Symbol not selected", "", 0)) /\ UNCHANGED tloc
             ELSE IF ~info.found
             THEN TradeReturn(Failure("Symbol not found", "", 0)) /\ UNCHANGED tloc
             ELSE IF info.trade_mode = 0
             THEN TradeReturn(Failure("Symbol not tradable", "", 0)) /\ UNCHANGED tloc
             ELSE IF ~tick.found
             THEN TradeReturn(Failure("No price", "", 0)) /\ UNCHANGED tloc
             ELSE IF order_type \notin {"BUY", "SELL"}
             THEN TradeReturn(Failure("Invalid order type", "", 0)) /\ UNCHANGED tloc
             ELSE IF supported_fillings = <<>>
             THEN TradeReturn(Failure("No supported filling modes", "", 0))
                  /\ UNCHANGED tloc
             ELSE \E up \in TieWays(tcall.volume.value, info.volume_step),
                     ups \in StopTies(order_type, price, tcall.sl_distance,
                                      stop_level, TRUE),
                     upt \in StopTies(order_type, price, tcall.tp_distance,
                                      stop_level, FALSE) :
                    LET volume == NormalizeVolume(tcall.volume.value, info, up)
                        sl == RequestStop(order_type, price, tcall.sl_distance,
                                          stop_level, TRUE, ups[1], ups[2])
                        tp == RequestStop(order_type, price, tcall.tp_distance,
                                          stop_level, FALSE, upt[1], upt[2])
                    IN /\ tloc' = [volume |-> volume, type |-> order_type,
                                   price |-> price, deviation |-> FirstDeviation,
                                   type_filling |-> supported_fillings[1],
                                   has_sl |-> sl.has, sl |-> sl.value,
                                   has_tp |-> tp.has, tp |-> tp.value,
                                   attempt |-> 0]
                       /\ tpc' = "p334"
                       /\ UNCHANGED <<tresult, mt5_lock>>
    /\ UNCHANGED tsent
    /\ UNCHANGED <<sessionVars, active_subscriptions, price_threads,
                   rooms, workerVars, handlerVars, adminVars, rpc, priceVars>>

\* lines 349-371: the answer to a result of order_send.
PlaceResult(reply) ==
    IF reply.code = TRADE_RETCODE_DONE
    THEN Success
    ELSE Failure("Order failed", ErrorCatalog(reply.code), reply.code)

\* lines 334-348: the order is sent; on None with the requote code the
\* deviation is widened for a second send.
PlaceSend(reply) ==
    /\ tpc = "p334"
    /\ tsent' = Append(tsent, tloc)
    /\ IF reply.none
       THEN IF IsRequote(reply.code)
            THEN /\ tloc' = [tloc EXCEPT !.deviation = RetryDeviation]
                 /\ tpc' = "p341"
                 /\ UNCHANGED <<tresult, mt5_lock>>
            ELSE /\ TradeReturn(Failure("Order failed: Code", "", reply.code))
                 /\ UNCHANGED tloc
       ELSE /\ TradeReturn(PlaceResult(reply))
            /\ UNCHANGED tloc
    /\ UNCHANGED tcall
    /\ UNCHANGED <<sessionVars, active_subscriptions, price_threads,
                   rooms, workerVars, handlerVars, adminVars, rpc, priceVars>>

\* lines 341-346, 349-371: the second send and its answer.
PlaceResend(reply) ==
    /\ tpc = "p341"
    /\ tsent' = Append(tsent, tloc)
    /\ IF reply.none
       THEN TradeReturn(Failure("Order failed: Code", "", reply.code))
       ELSE TradeReturn(PlaceResult(reply))
    /\ UNCHANGED <<tcall, tloc>>
    /\ UNCHANGED <<sessionVars, active_subscriptions, price_threads,
                   rooms, workerVars, handlerVars, adminVars, rpc, priceVars>>

\* lines 376-379: close_trade is called; "Not connected" unless self.connected.
CloseCall(volume, retries) ==
    /\ tpc = "idle"
    /\ tcall' = [NoCall EXCEPT !.op = "close_trade", !.volume = volume,
                               !.max_retries = retries]
    /\ tloc' = NoRequest
    /\ tsent' = <<>>
    /\ IF connected
       THEN /\ tpc' = "c380"
            /\ tresult' = NoResult
       ELSE /\ tpc' = "done"
            /\ tresult' = Failure("Not connected", "", 0)
    /\ UNCHANGED <<sessionVars, mt5_lock, active_subscriptions, price_threads,
                   rooms, workerVars, handlerVars, adminVars, rpc, priceVars>>

\* lines 381-416: the position and the instrument are read, the volume and the
\* filling type are chosen, the retry loop is entered.
CloseBuild(pos, view) ==
    /\ tpc = "c381"
    /\ LET info == view.info
           requested == IF tcall.volume.given
                        THEN Min2(tcall.volume.value, pos.volume)
                        ELSE pos.volume
           supported_fillings == SupportedFillings(info.filling_mode)
           known == pos.found /\ view.selected /\ info.found
       IN /\ tcall' = [tcall EXCEPT !.position = pos,
                                    !.info = IF pos.found THEN info ELSE NoInfo,
                                    !.supported_fillings =
                                        IF known THEN supported_fillings ELSE <<>>]
          /\ IF ~pos.found
             THEN TradeReturn(Failure("Position not found", "", 0)) /\ UNCHANGED tloc
             ELSE IF ~view.selected
             THEN TradeReturn(Failure("Symbol not selected", "", 0)) /\ UNCHANGED tloc
             ELSE IF ~info.found
             THEN TradeReturn(Failure("Symbol not found", "", 0)) /\ UNCHANGED tloc
             ELSE IF info.trade_mode = 0
             THEN TradeReturn(Failure("Symbol not tradable", "", 0)) /\ UNCHANGED tloc
             ELSE \E up \in TieWays(requested, info.volume_step) :
                    LET volume == NormalizeVolume(requested, info, up)
                    IN IF volume < info.volume_min
                       THEN TradeReturn(Failure("Volume below minimum", "", volume))
                            /\ UNCHANGED tloc
                       ELSE IF volume > info.volume_max
                       THEN TradeReturn(Failure("Volume exceeds maximum", "", volume))
                            /\ UNCHANGED tloc
                       ELSE IF supported_fillings = <<>>
                       THEN TradeReturn(Failure("No supported filling modes", "", 0))
                            /\ UNCHANGED tloc
                       ELSE IF tcall.max_retries = 0
                       THEN TradeReturn(Failure("Close failed after attempts", "",
                                                tcall.max_retries))
                            /\ UNCHANGED tloc
                       ELSE /\ tloc' = [NoRequest EXCEPT
                                          !.volume = volume,
                                          !.type = IF pos.type = "BUY" THEN "SELL"
                                                   ELSE "BUY",
                                          !.type_filling = supported_fillings[1]]
                            /\ tpc' = "c417"
                            /\ UNCHANGED <<tresult, mt5_lock>>
    /\ UNCHANGED tsent
    /\ UNCHANGED <<sessionVars, active_subscriptions, price_threads,
                   rooms, workerVars, handlerVars, adminVars, rpc, priceVars>>

\* Mutant of FallbackFilling: the fallback is a fixed mode.
FallbackFillingFixed(supported_fillings, filling_type) == "RETURN"

\* line 450: supported_fillings[1] if len(supported_fillings) > 1 else filling_type
FallbackFilling(supported_fillings, filling_type) ==
    IF Len(supported_fillings) > 1 THEN supported_fillings[2] ELSE filling_type

\* Mutant of AttemptDeviation: every attempt has the deviation of the first.
AttemptDeviationFlat(attempt) == FirstDeviation

\* line 431: "deviation": 20 + attempt * 10
AttemptDeviation(attempt) == FirstDeviation + attempt * DeviationStep

\* lines 417-464: one attempt of the retry loop: the tick is read and the
\* close order sent. Code 10021 with attempts left leads to the pause.
CloseAttempt(tick, reply) ==
    /\ tpc = "c417"
    /\ IF ~tick.found
       THEN /\ TradeReturn(Failure("No price", "", 0))
            /\ UNCHANGED <<tloc, tsent>>
       ELSE LET request == [tloc EXCEPT
                              !.price = IF tcall.position.type = "BUY"
                                        THEN tick.bid ELSE tick.ask,
                              !.deviation = AttemptDeviation(tloc.attempt)]
            IN /\ tsent' = Append(tsent, request)
               /\ IF reply.none
                  THEN /\ TradeReturn(Failure("Close failed: Code", "", reply.code))
                       /\ tloc' = request
                  ELSE IF reply.code = TRADE_RETCODE_DONE
                  THEN /\ TradeReturn(Success)
                       /\ tloc' = request
                  ELSE IF reply.code = InvalidRequest
                          /\ tloc.attempt < tcall.max_retries - 1
                  THEN /\ tloc' = [request EXCEPT !.type_filling =
                                     FallbackFilling(tcall.supported_fillings,
                                                     tloc.type_filling)]
                       /\ tpc' = "c451"
                       /\ UNCHANGED <<tresult, mt5_lock>>
                  ELSE /\ TradeReturn(Failure("Close failed", ErrorCatalog(reply.code),
                                              reply.code))
                       /\ tloc' = request
    /\ UNCHANGED tcall
    /\ UNCHANGED <<sessionVars, active_subscriptions, price_threads,
                   rooms, workerVars, handlerVars, adminVars, rpc, priceVars>>

\* lines 451-452, 416: time.sleep(0.5) ends and the loop goes to its next
\* attempt (the lock is held all the while).
CloseSleep ==
    /\ tpc = "c451"
    /\ tloc' = [tloc EXCEPT !.attempt = @ + 1]
    /\ tpc' = "c417"
    /\ UNCHANGED <<tcall, tsent, tresult, mt5_lock>>
    /\ UNCHANGED <<sessionVars, active_subscriptions, price_threads,
                   rooms, workerVars, handlerVars, adminVars, rpc, priceVars>>

\* ------------------------------------------------------------ specification
ConnectSteps ==
    \/ ConnectAcquire
    \/ \E outcome \in ConnectOutcomes : ConnectBody(outcome)
    \/ ConnectClear
    \/ \E outcome \in LoggedIn : ConnectReturn(outcome)

StopAllSteps ==
    \/ StopAll244
    \/ StopAll255
    \/ StopAll256
    \/ StopAll257
    \/ StopAll258

DisconnectRuns ==
    \/ DisconnectFlag
    \/ DisconnectEvent
    \/ DisconnectStop
    \/ Disconnect70
    \/ DisconnectJoin
    \/ DisconnectClearSubscriptions
    \/ DisconnectClearThreads
    \/ DisconnectFinish

DisconnectSteps ==
    \/ DisconnectAcquire
    \/ DisconnectRuns
    \/ StopAllSteps

StartSteps(c) ==
    \/ Request543(c)
    \/ Start196(c)
    \/ Start197(c)
    \/ Start198(c)
    \/ Start198Append(c)
    \/ Start201(c)
    \/ Start238(c)

StopSteps(c) ==
    \/ Stop556(c)
    \/ Stop244(c)
    \/ Stop247(c)
    \/ Stop248(c)
    \/ Stop249(c)
    \/ Stop250(c)
    \/ Stop251(c)
    \/ Stop252(c)

HandlerSteps(c) ==
    \/ StartSteps(c)
    \/ StopSteps(c)
    \/ Disconnect525(c)

WorkerSteps(w) ==
    \/ WorkerLoop(w)
    \/ WorkerLoopConnected(w)
    \/ WorkerLoopEvent(w)
    \/ WorkerCall(w)
    \/ WorkerAcquire(w)
    \/ WorkerPublish(w)
    \/ WorkerExit231(w)
    \/ WorkerExit232(w)
    \/ WorkerExit233(w)
    \/ WorkerExit234(w)

Next ==
    \/ ConnectSteps
    \/ DisconnectSteps
    \/ \E op \in RestOps : RestCall(op)
    \/ RestReject
    \/ RestAcquire
    \/ RestReturn
    \/ \E s \in Symbols : PriceCall(s)
    \/ PriceAcquire
    \/ \E res \in PriceResults : PriceFetch(res)
    \/ PriceRespond
    \/ \E c \in Clients, symbols \in SymbolLists : RequestData(c, symbols)
    \/ \E c \in Clients, symbols \in SymbolLists : StopData(c, symbols)
    \/ \E c \in Clients : ClientDisconnect(c)
    \/ \E c \in Clients : HandlerSteps(c)
    \/ \E w \in Workers : WorkerSteps(w)
    \/ \E w \in Workers, res \in PriceResults : WorkerFetch(w, res)
    \/ \E v \in Volumes, ty \in OrderTypes, sl \in Distances, tp \in Distances :
         PlaceCall(v, ty, sl, tp)
    \/ \E v \in CloseVolumes, n \in RetryLimits : CloseCall(v, n)
    \/ TradeAcquire
    \/ \E view \in VenueViews : PlaceBuild(view)
    \/ \E reply \in OrderReplies : PlaceSend(reply)
    \/ \E reply \in OrderReplies : PlaceResend(reply)
    \/ \E pos \in Positions, view \in VenueViews : CloseBuild(pos, view)
    \/ \E tick \in TradeTicks \cup {NoTick}, reply \in OrderReplies :
         CloseAttempt(tick, reply)
    \/ CloseSleep
    \/ TradeRespond

Spec == Init /\ [][Next]_vars

\* --------------------------------------------------------------- scenarios
\* The specifications below run the same actions under a narrower
\* environment (which requests arrive, what the venue answers), so that each
\* can be explored exhaustively.
OneClient == {"c1"}
SteadyQuote == {TickData([bid |-> 1, ask |-> 2])}
OneSymbol == {l \in SymbolLists : Len(l) = 1}

\* The numbers of the threads that the runs explored create.
WorkerIds == 1..MaxWorkers

\* connect is called only on a connector that is not connected.
ConnectFresh == ~connected /\ ConnectAcquire

FreshConnectSteps ==
    \/ ConnectFresh
    \/ \E outcome \in ConnectOutcomes : ConnectBody(outcome)
    \/ ConnectClear
    \/ \E outcome \in LoggedIn : ConnectReturn(outcome)

\* Worker threads the request-data handlers under way can still start: for
\* each handler one for the symbol it is handling (unless it has found a
\* worker registered) and one for each symbol left in its list.
RECURSIVE PendingStarts(_)
PendingStarts(cs) ==
    IF cs = {} THEN 0
    ELSE LET c == CHOOSE x \in cs : TRUE
             starts == IF hpc[c] = "r543" THEN Len(hrest[c])
                       ELSE IF hpc[c] \in {"s196", "s201", "s238"}
                       THEN 1 + Len(hrest[c])
                       ELSE IF hpc[c] \in {"s197", "s198"} \cup HoldsList
                       THEN Len(hrest[c])
                       ELSE 0
         IN starts + PendingStarts(cs \ {c})

\* The runs explored create no more than MaxWorkers threads: a request-data
\* event arrives only while the threads created, those the handlers under way
\* can still start and one for each symbol of its list are within that
\* number. The program has no such limit: this leaves out requests the
\* program accepts (the count takes every symbol of the list for a thread to
\* come, since a worker found registered now may be gone at line 196). A
\* handler that has started is never held back.
RequestBounded(c, symbols) ==
    /\ Len(wpc) + PendingStarts(Clients) + Len(symbols) <= MaxWorkers
    /\ RequestData(c, symbols)

\* request-data arrives only while no worker thread is alive.
RequestFresh(c, symbols) ==
    /\ \A w \in Workers : wpc[w] = "dead"
    /\ RequestBounded(c, symbols)

\* Subscription bookkeeping: two clients subscribe and unsubscribe while the
\* workers poll a quote that is always available.
NextRegistry ==
    \/ FreshConnectSteps
    \/ \E c \in Clients, symbols \in OneSymbol : RequestBounded(c, symbols)
    \/ \E c \in Clients, symbols \in OneSymbol : StopData(c, symbols)
    \/ \E c \in Clients : StartSteps(c)
    \/ \E c \in Clients : StopSteps(c)
    \/ \E w \in WorkerIds : WorkerSteps(w)
    \/ \E w \in WorkerIds, res \in SteadyQuote : WorkerFetch(w, res)

SpecRegistry == Init /\ [][NextRegistry]_vars

\* The session: connect, disconnect and the REST operations race with the
\* subscriptions of one client and the workers started for it.
NextSession ==
    \/ FreshConnectSteps
    \/ DisconnectAcquire
    \/ DisconnectRuns
    \/ StopAllSteps
    \/ \E op \in RestOps : RestCall(op)
    \/ RestReject
    \/ RestAcquire
    \/ RestReturn
    \/ \E c \in OneClient, symbols \in SymbolLists : RequestBounded(c, symbols)
    \/ \E c \in OneClient : StartSteps(c)
    \/ \E w \in WorkerIds : WorkerSteps(w)
    \/ \E w \in WorkerIds, res \in SteadyQuote : WorkerFetch(w, res)

SpecSession == Init /\ [][NextSession]_vars

\* The worker loop: every outcome of a price fetch, for the workers that one
\* request of one client starts.
NextWorker ==
    \/ FreshConnectSteps
    \/ \E c \in OneClient, symbols \in SymbolLists : RequestFresh(c, symbols)
    \/ \E c \in OneClient, symbols \in OneSymbol : StopData(c, symbols)
    \/ \E c \in OneClient : ClientDisconnect(c)
    \/ \E c \in OneClient : StartSteps(c)
    \/ \E c \in OneClient : StopSteps(c)
    \/ \E c \in OneClient : Disconnect525(c)
    \/ \E w \in WorkerIds : WorkerSteps(w)
    \/ \E w \in WorkerIds, res \in PriceResults : WorkerFetch(w, res)

SpecWorker == Init /\ [][NextWorker]_vars

\* Orders: place_trade and close_trade with every venue answer, on a session
\* that connect opens.
NextTrade ==
    \/ FreshConnectSteps
    \/ \E v \in Volumes, ty \in OrderTypes, sl \in Distances, tp \in Distances :
         PlaceCall(v, ty, sl, tp)
    \/ \E v \in CloseVolumes, n \in RetryLimits : CloseCall(v, n)
    \/ TradeAcquire
    \/ \E view \in VenueViews : PlaceBuild(view)
    \/ \E reply \in OrderReplies : PlaceSend(reply)
    \/ \E reply \in OrderReplies : PlaceResend(reply)
    \/ \E pos \in Positions, view \in VenueViews : CloseBuild(pos, view)
    \/ \E tick \in TradeTicks \cup {NoTick}, reply \in OrderReplies :
         CloseAttempt(tick, reply)
    \/ CloseSleep
    \/ TradeRespond

SpecTrade == Init /\ [][NextTrade]_vars

\* The stream of prices on a session that connect opens, the quote always
\* available: one client subscribes, unsubscribes and drops off, another one
\* subscribes. Every thread keeps running: a call of connect returns, a
\* handler goes on to its end, a worker is not starved and gets the lock in
\* the end.
NextStream ==
    \/ FreshConnectSteps
    \/ \E c \in Clients, symbols \in OneSymbol : RequestBounded(c, symbols)
    \/ \E c \in OneClient, symbols \in OneSymbol : StopData(c, symbols)
    \/ \E c \in OneClient : ClientDisconnect(c)
    \/ \E c \in OneClient : HandlerSteps(c)
    \/ \E c \in Clients \ OneClient : StartSteps(c)
    \/ \E w \in WorkerIds : WorkerSteps(w)
    \/ \E w \in WorkerIds, res \in SteadyQuote : WorkerFetch(w, res)

ConnectRuns ==
    \/ \E outcome \in ConnectOutcomes : ConnectBody(outcome)
    \/ ConnectClear
    \/ \E outcome \in LoggedIn : ConnectReturn(outcome)

WorkerRuns(w) == WorkerSteps(w) \/ \E res \in SteadyQuote : WorkerFetch(w, res)

SpecStreamFair ==
    /\ Init
    /\ [][NextStream]_vars
    /\ WF_vars(ConnectRuns)
    /\ \A c \in OneClient : WF_vars(HandlerSteps(c))
    /\ \A c \in Clients \ OneClient : WF_vars(StartSteps(c))
    /\ \A w \in WorkerIds : SF_vars(WorkerRuns(w))

\* Orders on a session that connect opens and disconnect shuts down: one
\* order and one close request on an instrument whose data and quote do not
\* change, with every answer of order_send.
SteadyVenue ==
    {view \in VenueViews :
       /\ view.selected /\ view.info.found /\ view.tick.found
       /\ view.info.trade_mode # 0
       /\ view.info.filling_mode = 3
       /\ view.info.stops_level = 0
       /\ view.info.volume_step = 2
       /\ view.tick.bid = 10 * PointUnits}

NextTradeSession ==
    \/ ConnectSteps
    \/ DisconnectAcquire
    \/ DisconnectRuns
    \/ PlaceCall(2, "BUY", 0, 0)
    \/ CloseCall(NoVolume, max_retries)
    \/ TradeAcquire
    \/ \E view \in SteadyVenue : PlaceBuild(view)
    \/ \E reply \in OrderReplies : PlaceSend(reply)
    \/ \E reply \in OrderReplies : PlaceResend(reply)
    \/ \E pos \in Positions, view \in SteadyVenue : CloseBuild(pos, view)
    \/ \E tick \in TradeTicks \cup {NoTick}, reply \in OrderReplies :
         CloseAttempt(tick, reply)
    \/ CloseSleep
    \/ TradeRespond

SpecTradeSession == Init /\ [][NextTradeSession]_vars

\* Quotes: a worker and direct calls of get_price fetch the price of the
\* symbol, among others the tick of a symbol that has had no quote yet (bid and
\* ask 0).
QuoteResults ==
    PriceResults \cup {TickData([bid |-> 0, ask |-> 0])}

NextQuotes ==
    \/ FreshConnectSteps
    \/ \E c \in OneClient, symbols \in OneSymbol : RequestBounded(c, symbols)
    \/ \E c \in OneClient : Request543(c)
    \/ \E c \in OneClient : Start196(c)
    \/ \E c \in OneClient : Start197(c)
    \/ \E c \in OneClient : Start198(c)
    \/ \E c \in OneClient : Start198Append(c)
    \/ \E c \in OneClient : Start201(c)
    \/ \E c \in OneClient : Start238(c)
    \/ \E w \in WorkerIds : WorkerSteps(w)
    \/ \E w \in WorkerIds, res \in QuoteResults : WorkerFetch(w, res)
    \/ \E s \in Symbols : PriceCall(s)
    \/ PriceAcquire
    \/ \E res \in QuoteResults : PriceFetch(res)
    \/ PriceRespond

SpecQuotes == Init /\ [][NextQuotes]_vars

\* ================================================================== claims
\* Positions of a worker: at the test of its loop condition, inside an
\* iteration of the loop, in its exit cleanup.
AtLoopTest == {"loop", "l208c", "l208s"}
Polling == {"call", "wait", "in", "w211"}
Exiting == {"x231", "x232", "x233", "x234"}

\* The worker compares the quote it fetched with the last one published, and
\* publishes it or not, in this step.
PublishStep(w) == wpc[w] = "w211" /\ wpc'[w] # "w211"

\* Threads that are inside the venue calls of an operation.
InVenueCall ==
    {AdminThread : x \in {apc} \cap {"c40", "c52", "d78"}}
      \cup {RestThread : x \in {rpc} \cap {"in"}}
      \cup {WorkerThread(w) : w \in {v \in Workers : wpc[v] = "in"}}

\* C1: every thread inside a venue call (of connect, disconnect, a REST query
\* or trade, or a worker's get_price) is the owner of the session lock, so at
\* most one thread is inside a venue call at any time.
SerializedVenueCalls ==
    /\ \A th \in InVenueCall : mt5_lock = th
    /\ Cardinality(InVenueCall) <= 1

\* C1 witness: a worker is inside its venue call while the REST thread and
\* another worker wait for the lock.
LockContended ==
    \E w \in Workers :
      /\ wpc[w] = "in"
      /\ rpc = "wait"
      /\ \E v \in Workers \ {w} : wpc[v] = "wait"

\* C2: for every symbol at most one worker is past the check of its loop
\* condition, that is, polling the symbol.
OneWorkerPerSymbol ==
    \A s \in Symbols :
      Cardinality({w \in Workers : wsym[w] = s /\ wpc[w] \in Polling}) <= 1

\* No handler and no disconnect is under way and no worker is in its exit
\* cleanup.
Quiescent ==
    /\ \A c \in Clients : hpc[c] = "idle"
    /\ apc = "idle"
    /\ \A w \in Workers : wpc[w] \notin Exiting

\* C3: once the operations under way have completed, a symbol has a worker
\* registered if and only if its subscriber set is non-empty.
WorkerIffSubscribers ==
    Quiescent =>
      \A s \in Symbols : Has(price_threads, s) <=> Subscribers(s) # {}

\* C4: subscriber reference counting. A subscribe that finds a worker
\* registered creates no worker and records the subscriber; an unsubscribe
\* deletes the subscriber list of the symbol, and takes its worker out of the
\* registry, only when no subscriber of the symbol is left.
ReferenceCounting ==
    [][\A c \in Clients :
         /\ (Start197(c) \/ Start198(c) \/ Start198Append(c)) =>
               UNCHANGED <<price_threads, wpc>>
         /\ Start198Append(c) =>
               Subscribers(hsym[c])' = Subscribers(hsym[c]) \cup {c}
         /\ Stop250(c) => Subscribers(hsym[c]) = {}
         /\ Stop252(c) => Subscribers(hsym[c]) = {}
      ]_vars

\* C5: no worker is inside the venue calls of get_price while the session is
\* shut down.
NoFetchOnClosedSession ==
    \A w \in Workers : wpc[w] = "in" => session = "open"

\* What a disconnect call is to leave behind when it returns: the connector
\* disconnected, the shutdown event set, the session closed, the lock free, no
\* worker registered and no subscription.
LeftDisconnected ==
    /\ price_threads' = EmptyDict
    /\ active_subscriptions' = EmptyDict
    /\ ~connected' /\ shutdown_event' /\ session' = "closed"
    /\ mt5_lock' = NoThread

CleanupOwnRegistration ==
    [][\A w \in Workers :
         (WorkerExit232(w) /\ Has(price_threads, wsym[w])) =>
           price_threads[wsym[w]] = w
      ]_vars

\* C8: a worker publishes a fetched quote exactly when its signature differs
\* from the signature it published last; failed fetches in between change
\* nothing of that.
ChangeOnlyPublish ==
    [][\A w \in Workers :
         PublishStep(w) =>
           /\ lastFetch'[w].ok
           /\ lastFetch'[w].pub <=> (lastFetch'[w].sig # lastPub[w])
           /\ lastPub'[w] = IF lastFetch'[w].pub THEN lastFetch'[w].sig ELSE lastPub[w]
      ]_vars

\* C8 witness: after a failed fetch the worker fetched the quote it had
\* published before and did not publish it again.
RepeatedQuoteNotPublished ==
    \E w \in Workers :
      /\ lastFetch[w].ok
      /\ ~lastFetch[w].pub
      /\ lastFetch[w].sig = lastPub[w]
      /\ error_count[w] > 0

\* C9: a worker that has failed max_errors fetches in a row is out of its
\* loop; its exit removes the symbol from the worker registry and from the
\* subscriptions; stop_price_stream for a symbol without subscription changes
\* nothing.
BreakerStops ==
    /\ [](\A w \in Workers : consec[w] >= max_errors => wpc[w] \in Exiting)
    /\ [][\A w \in Workers :
            /\ WorkerExit232(w) => ~Has(price_threads', wsym[w])
            /\ WorkerExit234(w) => ~Has(active_subscriptions', wsym[w])
         ]_vars
    /\ [][\A c \in Clients :
            (Stop244(c) /\ ~Has(active_subscriptions, hsym[c])) =>
              /\ UNCHANGED <<active_subscriptions, price_threads, workerVars,
                             sessionVars, mt5_lock>>
              /\ hpc'[c] = AfterStop(hpc[c])
         ]_vars

\* C9 witness: a worker has left its loop after max_errors failed fetches in
\* a row and has removed the symbol from the registry.
BreakerTripped ==
    \E w \in Workers :
      /\ consec[w] = max_errors
      /\ wpc[w] = "x233"
      /\ ~Has(price_threads, wsym[w])

\* Identities with a subscribe request under way (in the room already, not
\* yet recorded as subscriber).
Subscribing(s) ==
    {c \in Clients :
       hsym[c] = s
       /\ hpc[c] \in {"s196", "s197", "s198", "s201", "s238"} \cup HoldsList}

\* C10: a push for a symbol is delivered only to identities in the symbol's
\* subscriber set at that time (stated leniently: identities whose subscribe
\* request is still under way are allowed as well).
PushOnlyToSubscribers ==
    [][\A w \in Workers :
         (PublishStep(w) /\ lastFetch'[w].pub) =>
           Recipients(wsym[w]) \subseteq Subscribers(wsym[w]) \cup Subscribing(wsym[w])
      ]_vars

Requote == [none |-> TRUE, code |-> RequoteCode]

\* C11: one place_trade call sends at most two orders, the first at deviation
\* 20; an order_send that fails with the requote code is followed by exactly
\* one more send of the same request at deviation 50, and nothing else is; a
\* failure of that second send ends the call with the order-failed error.
RequoteRetry ==
    /\ [](tcall.op = "place_trade" =>
            /\ Len(tsent) <= 2
            /\ Len(tsent) >= 1 => tsent[1].deviation = FirstDeviation
            /\ Len(tsent) = 2 =>
                 tsent[2] = [tsent[1] EXCEPT !.deviation = RetryDeviation])
    /\ [][/\ PlaceSend(Requote) => tpc' = "p341"
          /\ (tpc = "p334" /\ tpc' = "p341") => PlaceSend(Requote)
          /\ (tpc = "p341" /\ tpc' # "p341") =>
                /\ tpc' = "done"
                /\ Len(tsent') = 2
          /\ \A reply \in OrderReplies :
                (PlaceResend(reply) /\ reply.none) =>
                  tresult' = Failure("Order failed: Code", "", reply.code)
         ]_vars

\* C11 witness: a place_trade call has ended with the order-failed error after
\* both of its sends failed with the requote code.
SecondRequoteTerminal ==
    /\ tcall.op = "place_trade"
    /\ tpc = "done"
    /\ Len(tsent) = 2
    /\ tsent[1].deviation = FirstDeviation
    /\ tsent[2].deviation = RetryDeviation
    /\ tresult = Failure("Order failed: Code", "", RequoteCode)

InvalidReply == [none |-> FALSE, code |-> InvalidRequest]

\* C12: in a close_trade call on an instrument with three filling modes, the
\* attempts that follow "invalid request" answers carry the first, the second
\* and the third mode, in this order.
CloseFallbackOrder ==
    (tcall.op = "close_trade" /\ Len(tcall.supported_fillings) = 3) =>
      \A i \in 1..Len(tsent) :
        i <= 3 => tsent[i].type_filling = tcall.supported_fillings[i]

\* C13: when the last attempt of a close_trade call with max_retries >= 1 is
\* answered "invalid request" as well, the call fails with the exhaustion
\* error naming max_retries.
CloseExhaustion ==
    [][\A tick \in TradeTicks :
         (/\ CloseAttempt(tick, InvalidReply)
          /\ tcall.max_retries >= 1
          /\ tloc.attempt = tcall.max_retries - 1) =>
           tresult' = Failure("Close failed after attempts", "", tcall.max_retries)
      ]_vars

\* The filling capabilities a bitmask grants, and the first of them in the
\* order FOK > IOC > RETURN.
HasBit(mask, bit) == (mask \div bit) % 2 = 1
Capabilities(mask) ==
    {f \in {"FOK", "IOC", "RETURN"} :
       \/ f = "FOK" /\ HasBit(mask, 1)
       \/ f = "IOC" /\ HasBit(mask, 2)
       \/ f = "RETURN" /\ HasBit(mask, 4)}
Preferred(mask) ==
    IF HasBit(mask, 1) THEN "FOK" ELSE IF HasBit(mask, 2) THEN "IOC" ELSE "RETURN"

\* The call under way has passed the checks that precede the choice of the
\* filling type.
PassedValidation ==
    /\ tcall.info.found
    /\ tcall.info.trade_mode # 0
    /\ tcall.op = "place_trade" => tcall.tick.found /\ tcall.order_type \in {"BUY", "SELL"}

\* C14: the first order a place_trade or close_trade call sends carries the
\* first mode of FOK > IOC > RETURN that the instrument's bitmask grants; with
\* no mode granted nothing is sent, and the call that got as far as choosing
\* the mode fails with the no-supported-filling error.
FillingSelection ==
    /\ Len(tsent) >= 1 => tsent[1].type_filling = Preferred(tcall.info.filling_mode)
    /\ (tcall.op # "none" /\ Capabilities(tcall.info.filling_mode) = {}) =>
         /\ tsent = <<>>
         /\ (tpc = "done" /\ PassedValidation) =>
              tresult = Failure("No supported filling modes", "", 0)

\* C14 witness: on an instrument granting FOK and RETURN but not IOC a
\* close_trade call has sent its first order, with FOK.
FokBeforeReturn ==
    /\ tcall.op = "close_trade"
    /\ tcall.info.filling_mode = 5
    /\ Len(tsent) >= 1
    /\ tsent[1].type_filling = "FOK"

\* C15: every order sent by place_trade (the resend included) and by every
\* attempt of close_trade carries a filling type that the bitmask read in
\* this call grants.
FillingIsSupported ==
    \A i \in 1..Len(tsent) :
      tsent[i].type_filling \in Capabilities(tcall.info.filling_mode)

\* C15 witness: a close_trade call has sent a second attempt with the
\* fallback filling type.
FallbackSent ==
    /\ tcall.op = "close_trade"
    /\ Len(tsent) >= 2
    /\ tsent[2].type_filling # tsent[1].type_filling

\* Clamping, and the multiples of step nearest to a volume.
Clamp(x, lo, hi) == IF x < lo THEN lo ELSE IF x > hi THEN hi ELSE x
NearestSteps(volume, step) ==
    {n \in 0..(volume + step) :
       /\ n % step = 0
       /\ 2 * (IF n > volume THEN n - volume ELSE volume - n) <= step}

\* C16: the volume of every order place_trade sends is the requested volume
\* rounded to the nearest multiple of volume_step and clamped into
\* [volume_min, volume_max], so it lies within these limits.
VolumeNormalized ==
    tcall.op = "place_trade" =>
      \A i \in 1..Len(tsent) :
        /\ tsent[i].volume \in
             {Clamp(n, tcall.info.volume_min, tcall.info.volume_max) :
                n \in NearestSteps(tcall.volume.value, tcall.info.volume_step)}
        /\ tsent[i].volume >= tcall.info.volume_min
        /\ tsent[i].volume <= tcall.info.volume_max

\* C16 witness: place_trade has sent, and sent again, an order whose volume
\* was rounded up to the next multiple of the step and then cut to volume_max.
VolumeRoundedAndCapped ==
    /\ tcall.op = "place_trade"
    /\ Len(tsent) = 2
    /\ tcall.info.volume_step = 3
    /\ tcall.volume.value = 5
    /\ tsent[1].volume = tcall.info.volume_max
    /\ tsent[2].volume = 5

SubscribeIdempotent ==
    [][\A c \in Clients :
         /\ (hwas[c] /\ (Start197(c) \/ Start198(c) \/ Start198Append(c)
                           \/ Start201(c) \/ Start238(c))) =>
               UNCHANGED <<active_subscriptions, price_threads>>
         /\ (Stop248(c) /\ Has(active_subscriptions', hsym[c])) =>
               ~InList(active_subscriptions'[hsym[c]], c)
      ]_vars

\* C19: whenever the error threshold stops a worker, the max_errors most
\* recent fetches of the worker all failed: no fetch among them succeeded.
BreakerOnlyConsecutive ==
    [][\A w \in Workers :
         (wpc[w] \in Polling /\ wpc'[w] = "x231") => consec'[w] >= max_errors
      ]_vars

\* A worker is in its loop while its symbol has no entry in the worker
\* registry.
Removed(w) == wpc[w] \in AtLoopTest \cup Polling /\ ~Has(price_threads, wsym[w])

\* C20: a worker whose symbol has been taken out of the worker registry
\* leaves its loop in the end, whatever is requested afterwards.
WorkerObservesRemoval ==
    \A w \in WorkerIds :
      (w \in Workers /\ Removed(w)) ~>
        (w \in Workers /\ wpc[w] \in Exiting \cup {"dead"})

\* C21: no thread holds mt5_lock while it pauses between two attempts of
\* close_trade, so that a price fetch of a worker can take the lock meanwhile.
LockFreeWhilePaused == tpc = "c451" => mt5_lock = NoThread

\* C22: place_trade and close_trade called while not connected fail with "Not
\* connected" without taking the lock or sending anything; and every order is
\* sent on a session that is connected and open.
NoSubmissionWhenDisconnected ==
    /\ [][(tpc = "idle" /\ tpc' # "idle" /\ ~connected) =>
            /\ tpc' = "done"
            /\ tresult' = Failure("Not connected", "", 0)
            /\ tsent' = <<>>
            /\ UNCHANGED mt5_lock
         ]_vars
    /\ [][Len(tsent') > Len(tsent) => (connected /\ session = "open")]_vars

\* C23: a connect that returns a failure (initialization failed, login
\* rejected, automated trading forbidden) leaves connected false.
ConnectFailureDisconnects ==
    [][/\ \A outcome \in ConnectOutcomes \ LoggedIn : ConnectBody(outcome) => ~connected'
       /\ ConnectReturn("no_expert") => ~connected'
      ]_vars

\* The message the claims expect for a return code of a result.
CatalogMessage(code) ==
    IF code = MarketClosed THEN "Market closed"
    ELSE IF code = InvalidRequest
    THEN "Invalid request (check volume, symbol, or market status)"
    ELSE "Error"

\* The answer of place_trade the claims expect for a reply of order_send that
\* ends the call.
PlaceAnswer(reply) ==
    IF reply.none THEN Failure("Order failed: Code", "", reply.code)
    ELSE IF reply.code = TRADE_RETCODE_DONE THEN Success
    ELSE Failure("Order failed", CatalogMessage(reply.code), reply.code)

\* C24: place_trade sends a second time only after a first send answered None
\* with the requote code; None with another code fails at once, and a result
\* with a code other than done (the requote code included) fails with the
\* catalog message, or "Error {code}", with no second send.
PlaceResendOnlyOnRequote ==
    [][\A reply \in OrderReplies :
         /\ (PlaceSend(reply) /\ ~(reply.none /\ reply.code = RequoteCode)) =>
               /\ tpc' = "done"
               /\ Len(tsent') = 1
               /\ tresult' = PlaceAnswer(reply)
         /\ (PlaceSend(reply) /\ reply.none /\ reply.code = RequoteCode) =>
               /\ tpc' = "p341"
               /\ Len(tsent') = 1
         /\ PlaceResend(reply) =>
               /\ tpc' = "done"
               /\ Len(tsent') = 2
               /\ tresult' = PlaceAnswer(reply)
      ]_vars

\* place_trade has failed at once, with one order sent, on a result with the
\* requote code.
ResultRequoteNotResent ==
    /\ tpc = "done"
    /\ tcall.op = "place_trade"
    /\ Len(tsent) = 1
    /\ tresult = Failure("Order failed", "Error", RequoteCode)

\* C25: close_trade sends at most max_retries orders; the attempt of index i
\* (from 0) is priced from the tick read in that attempt and sent with
\* deviation 20 + 10 * i; a further attempt follows only an attempt answered
\* with code 10021.
CloseAttemptsBounded ==
    /\ [](tcall.op = "close_trade" =>
            /\ Len(tsent) <= tcall.max_retries
            /\ \A i \in 1..Len(tsent) :
                 /\ tsent[i].attempt = i - 1
                 /\ tsent[i].deviation = 20 + 10 * (i - 1))
    /\ [][\A tick \in TradeTicks, reply \in OrderReplies :
            CloseAttempt(tick, reply) =>
              /\ Len(tsent') = Len(tsent) + 1
              /\ tsent'[Len(tsent')].price =
                    IF tcall.position.type = "BUY" THEN tick.bid ELSE tick.ask
         ]_vars
    /\ [][(tpc = "c417" /\ tpc' = "c451") =>
            \E tick \in TradeTicks :
               CloseAttempt(tick, [none |-> FALSE, code |-> InvalidRequest])
         ]_vars

\* close_trade has sent three attempts, the third with deviation 40, the first
\* two at different prices.
ThreeAttemptsSent ==
    /\ tpc = "done"
    /\ tcall.op = "close_trade"
    /\ tcall.max_retries = 3
    /\ Len(tsent) = 3
    /\ tsent[3].deviation = 40
    /\ tsent[1].price # tsent[2].price

\* C26: in close_trade a result with a code other than done and other than
\* 10021 ends the call at once with the catalog message of the code, whatever
\* number of attempts is left; nothing is sent after that.
CloseFailsWithoutRetry ==
    /\ [][\A tick \in TradeTicks, reply \in OrderReplies :
            (/\ CloseAttempt(tick, reply)
             /\ ~reply.none
             /\ reply.code \notin {TRADE_RETCODE_DONE, InvalidRequest}) =>
               /\ tpc' = "done"
               /\ tresult' = Failure("Close failed", CatalogMessage(reply.code),
                                      reply.code)
         ]_vars
    /\ [][tpc = "done" => Len(tsent') <= Len(tsent)]_vars

\* close_trade with three attempts allowed has failed on its first attempt
\* with "Market closed".
MarketClosedEndsClose ==
    /\ tpc = "done"
    /\ tcall.op = "close_trade"
    /\ tcall.max_retries = 3
    /\ Len(tsent) = 1
    /\ tresult = Failure("Close failed", "Market closed", MarketClosed)

\* C27: every order close_trade sends has a volume of at most the volume of
\* the position.
CloseWithinPosition ==
    tcall.op = "close_trade" =>
      \A i \in 1..Len(tsent) : tsent[i].volume <= tcall.position.volume

\* The close volume after the cap by the position's volume, and the multiples
\* of the step nearest to it that lie within the limits of the instrument.
CappedVolume ==
    IF tcall.volume.given
    THEN Min2(tcall.volume.value, tcall.position.volume)
    ELSE tcall.position.volume
QuantizedWithinLimits ==
    {n \in NearestSteps(CappedVolume, tcall.info.volume_step) :
       tcall.info.volume_min <= n /\ n <= tcall.info.volume_max}

\* C28: when the capped and quantized close volume is below volume_min or
\* above volume_max, close_trade sends nothing and fails with the volume
\* error: it does not enter its loop of attempts, and does not end with the
\* answer to an attempt.
CloseVolumeRejected ==
    (/\ tcall.op = "close_trade"
     /\ tcall.position.found
     /\ tcall.info.found
     /\ QuantizedWithinLimits = {}) =>
       /\ tsent = <<>>
       /\ tpc \notin {"c417", "c451"}
       /\ tresult.msg \notin {"Close failed", "Close failed: Code", "No price"}

\* C29: the stored high of a symbol never decreases and its stored low never
\* increases, over the price fetches of the workers and the direct calls of
\* get_price; and the data returned for a tick has low <= bid and ask <= high.
StatisticsWidenOnly ==
    /\ [][\A s \in Symbols :
            Has(symbol_data, s) =>
              /\ Has(symbol_data', s)
              /\ symbol_data'[s].high >= symbol_data[s].high
              /\ symbol_data'[s].low <= symbol_data[s].low
         ]_vars
    /\ []((qpc = "done" /\ qres.ok) => (qres.low <= qres.bid /\ qres.ask <= qres.high))

====
